---- MODULE Spec2Model ----
(***************************************************************************)
(* Release-bundle creation and update of jfrog-cli-artifactory, as written  *)
(* in lifecycle/commands and in the lifecycle command-line layer:           *)
(*   - validateFile, the validator of one spec FileGroup                   *)
(*     (SpecValidateFile);                                                 *)
(*   - validateCreationSources, the validator of the list of detected      *)
(*     source types (SpecValidateCreationSources);                         *)
(*   - the Run of the create and of the update command (SpecRun);          *)
(*   - the create and update invocations of the command line and the       *)
(*     validation of the update context (SpecCli);                         *)
(*   - the builders of the release-bundle and of the build sources         *)
(*     (SpecBuilders), the creation spec of the legacy flags               *)
(*     (SpecCreationSpec), the artifacts source (SpecArtifacts), the       *)
(*     sources of a spec file of several types (SpecMultiSources) and of   *)
(*     the source flags (SpecFlagSources), and the repository keys of      *)
(*     release-bundle sources (SpecRepoKey);                               *)
(* and the publication of a build info in the buildinfo commands:          *)
(*   - the Run of the publish command with the retries of the property     *)
(*     setting, one step per attempt (SpecPublish, and SpecPublishFair     *)
(*     where the running command keeps taking steps);                      *)
(*   - the extraction of the artifact paths (SpecExtract).                 *)
(* Apart from the publication, each specification draws the inputs of the  *)
(* function in its initial states and applies the function in one step.    *)
(***************************************************************************)
EXTENDS Integers, Sequences, FiniteSets, TLC

(* ------------------------------ bounds -------------------------------- *)

\* largest number of source-describing fields a generated FileGroup populates
MaxPopulated == 3

\* largest number of its other fields a generated FileGroup populates
MaxUnsupported == 1

\* longest list of detected source types handed to validateCreationSources
MaxDetected == 4

\* largest number of FileGroups of a generated spec file
MaxFiles == 2

\* largest number of FileGroups of the file of a --spec flag
MaxCliFiles == 1

\* largest number of arguments of an invocation
MaxArgs == 3

\* largest number of FileGroups handed to a source builder
MaxBuilderFiles == 3

\* largest number of FileGroups of a spec file of several source types
MaxMultiFiles == 3
MaxFlagEntries == 2

\* longest list of sources handed to a function of sources
MaxSources == 3

\* largest number of artifacts of a generated module
MaxArtifacts == 2

(* --------------------------- source types ----------------------------- *)

Aql == "aql"
Artifacts == "artifacts"
Builds == "builds"
ReleaseBundles == "release_bundles"
Packages == "packages"

SourceTypes == {Aql, Artifacts, Builds, ReleaseBundles, Packages}

\* the zero value of services.SourceType, returned beside most errors
NoSourceType == ""

(* ------------------------------ errors -------------------------------- *)

\* An error is the sequence of the pieces its message is formatted from (their
\* concatenation is the message); a nil error is the empty sequence.
NoErr == << >>

missingCreationSourcesErrMsg ==
    "unexpected err while validating spec - could not detect any creation sources"
multipleCreationSourcesErrMsg ==
    "multiple creation sources were detected in separate spec files. Only a single creation source should be provided. Detected:"
singleAqlErrMsg == "only a single aql query can be provided"
unsupportedCreationSourceMethod ==
    "creation source 'package' is not supported in current version"

invalidRecursiveErrMsg == "invalid value provided to the 'recursive' field. error: "
unsupportedFieldsErrMsg ==
    "unsupported fields were provided in file spec. release bundle creation file spec only supports the following fields: 'aql', 'build', 'includeDeps', 'bundle', 'project', 'pattern', 'exclusions', 'props', 'excludeProps' and 'recursive'"
exactlyOneSourceErrMsg ==
    "exactly one creation source should be defined per file (aql, builds, release bundles or pattern (artifacts))"
aqlFieldsErrMsg == "aql creation source supports no other fields"
buildsFieldsErrMsg ==
    "builds creation source only supports the 'includeDeps' and 'project' fields"
bundlesFieldsErrMsg ==
    "release bundles creation source only supports the 'project' field"
artifactsFieldsErrMsg ==
    "release bundles creation source only supports the 'exclusions', 'props', 'excludeProps' and 'recursive' fields"
packagesFieldsErrMsg ==
    "release bundles creation source only supports the 'version', 'type', 'repoKey' fields"
unexpectedSpecErrMsg == "unexpected err in spec validation"

(* ----------------------------- FileGroup ------------------------------ *)

\* the source-describing fields of a spec.File, none populated
EmptySourceFields ==
    [ Aql |-> "", Build |-> "", IncludeDeps |-> "", Bundle |-> "", Project |-> "",
      Package |-> "", Version |-> "", Type |-> "", RepoKey |-> "",
      Pattern |-> "", Exclusions |-> <<>>, Props |-> "", ExcludeProps |-> "",
      Recursive |-> "" ]

\* the remaining fields of a spec.File that validateFile reads, none populated
EmptyOtherFields ==
    [ PathMappingInput |-> "", PathMappingOutput |-> "", Target |-> "",
      SortOrder |-> "", SortBy |-> "", ExcludeArtifacts |-> "",
      PublicGpgKey |-> "", Offset |-> 0, Limit |-> 0, Archive |-> "",
      Symlinks |-> "", Regexp |-> "", Ant |-> "", Explode |-> "",
      BypassArchiveInspection |-> "", Transitive |-> "" ]

\* spec.File with no field populated
EmptyFile == EmptySourceFields @@ EmptyOtherFields

\* spec.File with no field populated, its build and bundle identifiers being
\* texts: sequences of pieces, "/" being a piece of its own
EmptyTextFile == [EmptyFile EXCEPT !.Build = << >>, !.Bundle = << >>]

\* the non-default values a generated FileGroup gives to each field
SourceFieldValues ==
    [ Aql |-> {"abc"}, Build |-> {"name/number"}, IncludeDeps |-> {"true", "false", "bad"},
      Bundle |-> {"name/version"}, Project |-> {"project"},
      Package |-> {"abc"}, Version |-> {"1.0.0"}, Type |-> {"type"}, RepoKey |-> {"repo"},
      Pattern |-> {"repo/path/file"}, Exclusions |-> {<<"">>, <<"exclude">>, <<"", "exclude">>},
      Props |-> {"prop"}, ExcludeProps |-> {"exclude prop"},
      Recursive |-> {"true", "false", "bad"} ]

OtherFieldValues ==
    [ PathMappingInput |-> {"input"}, PathMappingOutput |-> {"output"},
      Target |-> {"target"}, SortOrder |-> {"asc"}, SortBy |-> {"name"},
      ExcludeArtifacts |-> {"true", "false"}, PublicGpgKey |-> {"key"},
      Offset |-> {1}, Limit |-> {1}, Archive |-> {"zip"},
      Symlinks |-> {"true", "false"}, Regexp |-> {"true", "false"},
      Ant |-> {"true", "false"}, Explode |-> {"true", "false"},
      BypassArchiveInspection |-> {"true", "false"}, Transitive |-> {"true", "false"} ]

\* the records that populate at most k fields of empty, with the given values
RECURSIVE PopulateUpTo(_, _, _)
PopulateUpTo(empty, values, k) ==
    IF k = 0 THEN {empty}
    ELSE LET S == PopulateUpTo(empty, values, k - 1)
         IN  S \cup UNION { { [f EXCEPT ![n] = v] : f \in S, v \in values[n] } :
                            n \in DOMAIN values }

SourceFieldSets == PopulateUpTo(EmptySourceFields, SourceFieldValues, MaxPopulated)
OtherFieldSets == PopulateUpTo(EmptyOtherFields, OtherFieldValues, MaxUnsupported)

(* ------------------------- library helpers ---------------------------- *)

\* clientutils.StringToBool over strconv.ParseBool: the default for an empty
\* string, the parsed value for a boolean, (false, error) for anything else
StringToBool(boolVal, defaultValue) ==
    IF boolVal = "" THEN [val |-> defaultValue, err |-> FALSE]
    ELSE IF boolVal = "true" THEN [val |-> TRUE, err |-> FALSE]
    ELSE IF boolVal = "false" THEN [val |-> FALSE, err |-> FALSE]
    ELSE [val |-> FALSE, err |-> TRUE]

\* coreutils.SumTrueValues: the number of true entries
SumTrueValues(boolArr) == Cardinality({i \in DOMAIN boolArr : boolArr[i]})

(* ---------------------------- validateFile ---------------------------- *)

\* Aql creation source
isAql(file) == Len(file.Aql) > 0

\* Build creation source
isBuild(file) == Len(file.Build) > 0
isIncludeDeps(file) == StringToBool(file.IncludeDeps, FALSE).val

\* Bundle creation source
isBundle(file) == Len(file.Bundle) > 0

\* Build & bundle
isProject(file) == Len(file.Project) > 0

\* Packages
isPackage(file) == Len(file.Package) > 0

\* Artifacts creation source
isPattern(file) == Len(file.Pattern) > 0
isExclusions(file) == Len(file.Exclusions) > 0 /\ Len(file.Exclusions[1]) > 0
isProps(file) == Len(file.Props) > 0
isExcludeProps(file) == Len(file.ExcludeProps) > 0
isRecursive(file) == StringToBool(file.Recursive, TRUE).val
isRecursiveErr(file) == StringToBool(file.Recursive, TRUE).err

\* Unsupported
isPathMapping(file) ==
    Len(file.PathMappingInput) > 0 \/ Len(file.PathMappingOutput) > 0
isTarget(file) == Len(file.Target) > 0
isSortOrder(file) == Len(file.SortOrder) > 0
isSortBy(file) == Len(file.SortBy) > 0
isExcludeArtifacts(file) == StringToBool(file.ExcludeArtifacts, FALSE).val
isGPGKey(file) == Len(file.PublicGpgKey) > 0
isOffset(file) == file.Offset > 0
isLimit(file) == file.Limit > 0
isArchive(file) == Len(file.Archive) > 0
isSymlinks(file) == StringToBool(file.Symlinks, FALSE).val
isRegexp(file) == file.Regexp = "true"
isAnt(file) == file.Ant = "true"
isExplode(file) == StringToBool(file.Explode, FALSE).val
isBypassArchiveInspection(file) == StringToBool(file.BypassArchiveInspection, FALSE).val
isTransitive(file) == StringToBool(file.Transitive, FALSE).val

\* mutant: the transitive flag is left out of the rejected fields
unsupportedFieldsProvided_NoTransitive(file) ==
    \/ isPathMapping(file) \/ isTarget(file) \/ isSortOrder(file) \/ isSortBy(file)
    \/ isExcludeArtifacts(file) \/ isGPGKey(file) \/ isOffset(file) \/ isLimit(file)
    \/ isSymlinks(file) \/ isArchive(file) \/ isAnt(file) \/ isRegexp(file)
    \/ isExplode(file) \/ isBypassArchiveInspection(file)

\* the condition of the unsupported-fields rejection
unsupportedFieldsProvided(file) ==
    \/ isPathMapping(file) \/ isTarget(file) \/ isSortOrder(file) \/ isSortBy(file)
    \/ isExcludeArtifacts(file) \/ isGPGKey(file) \/ isOffset(file) \/ isLimit(file)
    \/ isSymlinks(file) \/ isArchive(file) \/ isAnt(file) \/ isRegexp(file)
    \/ isExplode(file) \/ isBypassArchiveInspection(file) \/ isTransitive(file)

\* mutant: only a file with no creation source is rejected
notExactlyOneSource_NoneOnly(file, packageAndMultiSourceSupported) ==
    /\ ~packageAndMultiSourceSupported
    /\ SumTrueValues(<<isAql(file), isBuild(file), isBundle(file), isPattern(file)>>) = 0

\* mutant: the package field counts as a creation source too
notExactlyOneSource_WithPackage(file, packageAndMultiSourceSupported) ==
    /\ ~packageAndMultiSourceSupported
    /\ SumTrueValues(<<isAql(file), isBuild(file), isBundle(file), isPattern(file),
                       isPackage(file)>>) # 1

\* mutant: the capability flag is not consulted
notExactlyOneSource_AnyMode(file, packageAndMultiSourceSupported) ==
    SumTrueValues(<<isAql(file), isBuild(file), isBundle(file), isPattern(file)>>) # 1

\* the condition of the one-source-per-file rejection
notExactlyOneSource(file, packageAndMultiSourceSupported) ==
    /\ ~packageAndMultiSourceSupported
    /\ SumTrueValues(<<isAql(file), isBuild(file), isBundle(file), isPattern(file)>>) # 1

\* the fields each creation source rejects
aqlUnsupportedFields(file) ==
    <<isIncludeDeps(file), isProject(file), isExclusions(file), isProps(file),
      isExcludeProps(file), ~isRecursive(file)>>
buildsUnsupportedFields(file) ==
    <<isExclusions(file), isProps(file), isExcludeProps(file), ~isRecursive(file)>>
\* mutant: a release bundle source lets includeDeps through
bundlesUnsupportedFields_NoIncludeDeps(file) ==
    <<isExclusions(file), isProps(file), isExcludeProps(file), ~isRecursive(file)>>
bundlesUnsupportedFields(file) ==
    <<isIncludeDeps(file), isExclusions(file), isProps(file), isExcludeProps(file),
      ~isRecursive(file)>>
artifactsUnsupportedFields(file) == <<isIncludeDeps(file), isProject(file)>>
packagesUnsupportedFields(file) ==
    <<isIncludeDeps(file), isExclusions(file), isProps(file), isExcludeProps(file),
      ~isRecursive(file), isProject(file)>>

validateCreationSource(unsupportedFields, errMsg) ==
    IF SumTrueValues(unsupportedFields) > 0 THEN <<errMsg>> ELSE NoErr

\* the switch that ends validateFile: the first populated kind, in this order
matchCreationSource(file) ==
    IF isAql(file)
    THEN [sourceType |-> Aql,
          err |-> validateCreationSource(aqlUnsupportedFields(file), aqlFieldsErrMsg)]
    ELSE IF isBuild(file)
    THEN [sourceType |-> Builds,
          err |-> validateCreationSource(buildsUnsupportedFields(file), buildsFieldsErrMsg)]
    ELSE IF isBundle(file)
    THEN [sourceType |-> ReleaseBundles,
          err |-> validateCreationSource(bundlesUnsupportedFields(file), bundlesFieldsErrMsg)]
    ELSE IF isPattern(file)
    THEN [sourceType |-> Artifacts,
          err |-> validateCreationSource(artifactsUnsupportedFields(file), artifactsFieldsErrMsg)]
    ELSE IF isPackage(file)
    THEN [sourceType |-> Packages,
          err |-> validateCreationSource(packagesUnsupportedFields(file), packagesFieldsErrMsg)]
    ELSE [sourceType |-> NoSourceType, err |-> <<unexpectedSpecErrMsg>>]

validateFile(file, packageAndMultiSourceSupported) ==
    IF isRecursiveErr(file)
    THEN [sourceType |-> NoSourceType, err |-> <<invalidRecursiveErrMsg, file.Recursive>>]
    ELSE IF unsupportedFieldsProvided(file)
    THEN [sourceType |-> NoSourceType, err |-> <<unsupportedFieldsErrMsg>>]
    ELSE IF notExactlyOneSource(file, packageAndMultiSourceSupported)
    THEN [sourceType |-> NoSourceType, err |-> <<exactlyOneSourceErrMsg>>]
    ELSE matchCreationSource(file)

(* ---------------------- validateCreationSources ----------------------- *)

\* strings.Join: the elements with sep between them, as message pieces
RECURSIVE Join(_, _)
Join(elems, sep) ==
    IF Len(elems) = 0 THEN << >>
    ELSE IF Len(elems) = 1 THEN <<elems[1]>>
    ELSE <<elems[1], sep>> \o Join(Tail(elems), sep)

\* coreutils.ListToText: "a", "a and b", "a, b and c"
ListToText(list) ==
    IF Len(list) = 1 THEN <<list[1]>>
    ELSE Join(SubSeq(list, 1, Len(list) - 1), ", ") \o <<" and ", list[Len(list)]>>

\* mutant: the detected names are joined with commas only
generateSingleCreationSourceErr_CommaJoined(detectedCreationSources) ==
    LET detectedStr == [i \in DOMAIN detectedCreationSources |-> detectedCreationSources[i]]
    IN  <<multipleCreationSourcesErrMsg, " '">> \o Join(detectedStr, ", ") \o <<"'">>

generateSingleCreationSourceErr(detectedCreationSources) ==
    LET detectedStr == [i \in DOMAIN detectedCreationSources |-> detectedCreationSources[i]]
    IN  <<multipleCreationSourcesErrMsg, " '">> \o ListToText(detectedStr) \o <<"'">>

\* mutant: the comparison with the first entry comes before the package check
singleSourceErr_CompareFirst(detectedCreationSources, i) ==
    IF detectedCreationSources[i] # detectedCreationSources[1]
    THEN generateSingleCreationSourceErr(detectedCreationSources)
    ELSE IF detectedCreationSources[i] = Packages
    THEN <<unsupportedCreationSourceMethod>>
    ELSE NoErr

\* the single-source checks of one loop iteration
singleSourceErr(detectedCreationSources, i) ==
    IF detectedCreationSources[i] = Packages
    THEN <<unsupportedCreationSourceMethod>>
    ELSE IF detectedCreationSources[i] # detectedCreationSources[1]
    THEN generateSingleCreationSourceErr(detectedCreationSources)
    ELSE NoErr

\* mutant: two aql queries are let through
singleAqlErr_AllowTwo(aqlSrcCnt) ==
    IF aqlSrcCnt > 2 THEN <<singleAqlErrMsg>> ELSE NoErr

\* mutant: a single aql query is rejected too
singleAqlErr_RejectOne(aqlSrcCnt) ==
    IF aqlSrcCnt >= 1 THEN <<singleAqlErrMsg>> ELSE NoErr

\* mutant: the aql count is not checked
singleAqlErr_Unchecked(aqlSrcCnt) == NoErr

\* the check after the loop: if aql, assert single file
singleAqlErr(aqlSrcCnt) ==
    IF aqlSrcCnt > 1 THEN <<singleAqlErrMsg>> ELSE NoErr

\* the loop over the detected sources, from index i with aqlSrcCnt counted so far
RECURSIVE scanCreationSources(_, _, _, _)
scanCreationSources(detectedCreationSources, multipleSourcesAndPackagesSupported, i, aqlSrcCnt) ==
    IF i > Len(detectedCreationSources)
    THEN singleAqlErr(aqlSrcCnt)
    ELSE LET cnt == IF detectedCreationSources[i] = Aql THEN aqlSrcCnt + 1 ELSE aqlSrcCnt
             err == IF multipleSourcesAndPackagesSupported THEN NoErr
                    ELSE singleSourceErr(detectedCreationSources, i)
         IN  IF err # NoErr THEN err
             ELSE scanCreationSources(detectedCreationSources,
                                      multipleSourcesAndPackagesSupported, i + 1, cnt)

validateCreationSources(detectedCreationSources, multipleSourcesAndPackagesSupported) ==
    IF Len(detectedCreationSources) = 0
    THEN <<missingCreationSourcesErrMsg>>
    ELSE scanCreationSources(detectedCreationSources, multipleSourcesAndPackagesSupported, 1, 0)

\* the lists of source types of length at most n
RECURSIVE SourceTypeLists(_)
SourceTypeLists(n) ==
    IF n = 0 THEN {<< >>}
    ELSE LET S == SourceTypeLists(n - 1)
         IN  S \cup {Append(d, t) : d \in S, t \in SourceTypes}

(* ------------------------------- texts -------------------------------- *)

\* A text the program splits is the sequence of its pieces, every separator
\* and every blank being a piece of its own; the empty text is << >>.

\* the string a text stands for
RECURSIVE Concat(_)
Concat(text) == IF text = << >> THEN "" ELSE Head(text) \o Concat(Tail(text))

\* the positions of sep in text
Positions(text, sep) == {i \in 1..Len(text) : text[i] = sep}
FirstPosition(text, sep) ==
    CHOOSE i \in Positions(text, sep) : \A j \in Positions(text, sep) : i <= j
LastPosition(text, sep) ==
    CHOOSE i \in Positions(text, sep) : \A j \in Positions(text, sep) : i >= j

\* strings.Split: the texts between the separators, one text when there is none
RECURSIVE Split(_, _)
Split(text, sep) ==
    IF Positions(text, sep) = {} THEN <<text>>
    ELSE LET i == FirstPosition(text, sep)
         IN  <<SubSeq(text, 1, i - 1)>> \o Split(SubSeq(text, i + 1, Len(text)), sep)

\* strings.SplitN(text, sep, 2): cut at the first separator only
SplitN2(text, sep) ==
    IF Positions(text, sep) = {} THEN <<text>>
    ELSE LET i == FirstPosition(text, sep)
         IN  <<SubSeq(text, 1, i - 1), SubSeq(text, i + 1, Len(text))>>

\* strings.TrimSpace: without the leading and the trailing blanks
RECURSIVE TrimSpace(_)
TrimSpace(text) ==
    IF text = << >> THEN text
    ELSE IF Head(text) = " " THEN TrimSpace(Tail(text))
    ELSE IF text[Len(text)] = " " THEN TrimSpace(SubSeq(text, 1, Len(text) - 1))
    ELSE text

\* strconv.ParseBool with its error dropped: false for anything not truthy
ParseBool(str) == str \in {"1", "t", "T", "TRUE", "true", "True"}

\* a variant with the latest-version policy: a bare name is given the version
\* LATEST
ParseNameAndVersion_Latest(identifier) ==
    IF identifier = << >> THEN [name |-> "", version |-> "", err |-> FALSE]
    ELSE IF Positions(identifier, "/") = {}
    THEN [name |-> Concat(identifier), version |-> "LATEST", err |-> FALSE]
    ELSE LET i == LastPosition(identifier, "/")
         IN  [name |-> Concat(SubSeq(identifier, 1, i - 1)),
              version |-> Concat(SubSeq(identifier, i + 1, Len(identifier))),
              err |-> FALSE]

\* rtServicesUtils.ParseNameAndVersion(identifier, false): name and version
\* around the last "/"; an error when there is no "/" or nothing before it
ParseNameAndVersion(identifier) ==
    IF identifier = << >> THEN [name |-> "", version |-> "", err |-> FALSE]
    ELSE IF Positions(identifier, "/") = {} THEN [name |-> "", version |-> "", err |-> TRUE]
    ELSE LET i == LastPosition(identifier, "/")
             name == Concat(SubSeq(identifier, 1, i - 1))
             version == Concat(SubSeq(identifier, i + 1, Len(identifier)))
         IN  IF name = "" THEN [name |-> "", version |-> "", err |-> TRUE]
             ELSE [name |-> name, version |-> version, err |-> FALSE]

\* utils.GetBuildInfoRepositoryByProject
GetBuildInfoRepositoryByProject(projectKey) ==
    IF projectKey = "" \/ projectKey = "default" THEN "artifactory-build-info"
    ELSE projectKey \o "-build-info"

(* ------------------------------ versions ------------------------------ *)

\* an Artifactory version is <<major, minor, patch>>
minimalLifecycleArtifactoryVersion == <<7, 63, 2>>
minArtifactoryVersionForMultiSourceAndPackagesSupport == <<7, 114, 0>>
minArtifactoryVersionForMultiSourceSupport == <<7, 114, 0>>

AtLeast(version, minVersion) ==
    \/ version[1] > minVersion[1]
    \/ version[1] = minVersion[1] /\ version[2] > minVersion[2]
    \/ version[1] = minVersion[1] /\ version[2] = minVersion[2]
                                   /\ version[3] >= minVersion[3]

\* the text of a version
VersionText(version) ==
    ToString(version[1]) \o "." \o ToString(version[2]) \o "." \o ToString(version[3])

versionFetchErrMsg == "failed to read the artifactory version"
minimumVersionErrMsg == "You are using Artifactory version below the minimum required:"

\* validateArtifactoryVersion: the error of reading the version, else the
\* error of clientUtils.ValidateMinimumVersion
validateArtifactoryVersion(fetchFails, version, minVersion) ==
    IF fetchFails THEN <<versionFetchErrMsg>>
    ELSE IF AtLeast(version, minVersion) THEN NoErr
    ELSE <<minimumVersionErrMsg, VersionText(minVersion)>>

validateArtifactoryVersionSupported(fetchFails, version) ==
    validateArtifactoryVersion(fetchFails, version, minimalLifecycleArtifactoryVersion)

ValidateFeatureSupportedVersion(fetchFails, version, minCommandVersion) ==
    validateArtifactoryVersion(fetchFails, version, minCommandVersion)

(* ------------------------------ sources ------------------------------- *)

\* services.RbSource with no field populated
EmptyRbSource ==
    [ SourceType |-> NoSourceType, Aql |-> "", Artifacts |-> << >>, Builds |-> << >>,
      ReleaseBundles |-> << >>, Packages |-> << >> ]

\* services.BuildSource
BuildSource(name, number, repository, includeDeps) ==
    [ BuildName |-> name, BuildNumber |-> number, BuildRepository |-> repository,
      IncludeDependencies |-> includeDeps ]

\* services.ReleaseBundleSource with its repository key not set
ReleaseBundleSource(name, version, projectKey) ==
    [ ReleaseBundleName |-> name, ReleaseBundleVersion |-> version,
      ProjectKey |-> projectKey, RepositoryKey |-> "" ]

\* a result of a builder: its value beside a nil error, or its error
Built(value) == [val |-> value, err |-> NoErr]
Failed(error) == [val |-> << >>, err |-> error]

\* a body applied to a value computed once
With(value, Body(_)) == Body(value)

\* the image of a sequence
MapSeq(seq, Op(_)) == [i \in 1..Len(seq) |-> Op(seq[i])]

(* ------------------- sources of the command-line flags ----------------- *)

\* the k=v pairs of a comma-separated text, in order
keyValuePairs(input) ==
    LET pairs == Split(input, ",")
    IN  SelectSeq([i \in 1..Len(pairs) |-> SplitN2(pairs[i], "=")],
                  LAMBDA kv : Len(kv) = 2)

\* parseKeyValueString: the map of the trimmed keys to the trimmed values, a
\* later pair replacing an earlier one of the same key
parseKeyValueString(input) ==
    LET kvs == keyValuePairs(input)
        key(i) == Concat(TrimSpace(kvs[i][1]))
        last(k) == CHOOSE i \in 1..Len(kvs) :
                       key(i) = k /\ \A j \in 1..Len(kvs) : key(j) = k => j <= i
    IN  [k \in {key(i) : i \in 1..Len(kvs)} |-> Concat(TrimSpace(kvs[last(k)][2]))]

\* map[key] of a Go map of strings: the empty string for a missing key
MapGet(map, k) == IF k \in DOMAIN map THEN map[k] ELSE ""

\* the build source of a map of keys to values
buildSourceOfMap(buildInfoMap, projectKey) ==
    BuildSource(MapGet(buildInfoMap, "name"), MapGet(buildInfoMap, "id"),
                GetBuildInfoRepositoryByProject(projectKey),
                ParseBool(MapGet(buildInfoMap, "include-deps")))

\* a variant in which an entry with no k=v pair yields no build source
buildRbBuildsSources_SkipEmpty(sourcesStr, projectKey, sources) ==
    With(MapSeq(SelectSeq(Split(sourcesStr, ";"),
                          LAMBDA entry : keyValuePairs(entry) # << >>),
                LAMBDA entry : buildSourceOfMap(parseKeyValueString(entry), projectKey)),
         LAMBDA buildSources :
             IF Len(buildSources) > 0
             THEN Append(sources, [EmptyRbSource EXCEPT !.SourceType = Builds,
                                                        !.Builds = buildSources])
             ELSE sources)

buildRbBuildsSources(sourcesStr, projectKey, sources) ==
    With(MapSeq(Split(sourcesStr, ";"),
                LAMBDA entry : buildSourceOfMap(parseKeyValueString(entry), projectKey)),
         LAMBDA buildSources :
             IF Len(buildSources) > 0
             THEN Append(sources, [EmptyRbSource EXCEPT !.SourceType = Builds,
                                                        !.Builds = buildSources])
             ELSE sources)

\* the release-bundle source of a map of keys to values
releaseBundleSourceOfMap(buildInfoMap, projectKey) ==
    ReleaseBundleSource(MapGet(buildInfoMap, "name"), MapGet(buildInfoMap, "version"),
                        projectKey)

buildRbReleaseBundlesSources(sourcesStr, projectKey, sources) ==
    With(MapSeq(Split(sourcesStr, ";"),
                LAMBDA entry :
                    releaseBundleSourceOfMap(parseKeyValueString(entry), projectKey)),
         LAMBDA releaseBundleSources :
             IF Len(releaseBundleSources) > 0
             THEN Append(sources,
                         [EmptyRbSource EXCEPT !.SourceType = ReleaseBundles,
                                               !.ReleaseBundles = releaseBundleSources])
             ELSE sources)

\* builds first, release bundles second
buildReleaseBundleSourcesParams(rbc) ==
    With(IF rbc.sourcesBuilds # << >>
         THEN buildRbBuildsSources(rbc.sourcesBuilds, rbc.rbProjectKey, << >>)
         ELSE << >>,
         LAMBDA withBuilds :
             IF rbc.sourcesReleaseBundles # << >>
             THEN buildRbReleaseBundlesSources(rbc.sourcesReleaseBundles,
                                               rbc.rbProjectKey, withBuilds)
             ELSE withBuilds)

atLeastASingleMultiSourceRBDefinedFromCommand(rbc) ==
    rbc.sourcesReleaseBundles # << >> \/ rbc.sourcesBuilds # << >>

(* --------------------------- the environment --------------------------- *)

\* What a run meets outside the command: the Artifactory version, the
\* contents of the legacy builds-spec and release-bundles-spec files, and at
\* most one failing collaborator.
Faults ==
    { "none",
      "baselineFetch",   \* reading the version fails in the baseline check
      "probeFetch",      \* reading the version fails in the multi-source probe
      "manager",         \* the lifecycle services manager cannot be created
      "readFile",        \* a legacy spec file cannot be read or parsed
      "lookupErr",       \* the build lookup returns an error
      "lookupNoName",    \* the build lookup returns no name
      "lookupNoNumber",  \* the build lookup returns no number
      "searchErr",       \* the artifacts search returns an error
      "searchEmpty",     \* the artifacts search finds nothing
      "cleanupErr",      \* closing the search results returns an error
      "backend" }        \* the lifecycle service answers with an error

\* What the artifacts builder meets: the faults of the search above, an
\* Artifactory services manager that cannot be created, search results that
\* cannot be read, and search results that can be neither read nor closed.
ArtifactsFaults ==
    { "none", "rtManager", "searchErr", "searchEmpty", "cleanupErr", "readErr",
      "readAndCleanupErr" }

\* reading the search results fails
readFails(env) == env.fault \in {"readErr", "readAndCleanupErr"}
\* the cleanup callback of the search returns an error
callbackFails(env) == env.fault \in {"cleanupErr", "readAndCleanupErr"}

\* the build number the lookup finds when it finds one
LatestBuildNumber == "9"

managerErrMsg == "failed to create the lifecycle services manager"
readFileErrMsg == "failed to read the spec file"
lookupErrMsg == "build lookup failed"
searchErrMsg == "artifacts search failed"
rtManagerErrMsg == "failed to create the Artifactory services manager"
readErrMsg == "failed to read the search results"
cleanupErrMsg == "failed to close the search results"
backendErrMsg == "the lifecycle service returned an error"

(* ---------------------------- the spec file ---------------------------- *)

\* rbc.spec: nil, a spec whose Files is nil, or a spec with a list of files
NilSpec == [state |-> "nil", Files |-> << >>]
NilFilesSpec == [state |-> "nilFiles", Files |-> << >>]
SpecOf(files) == [state |-> "files", Files |-> files]

(* ----------------------- sources of the spec file ---------------------- *)

noDelimiterErrMsg == "no '/' is found in the bundle"
invalidBundleSourceErrMsg ==
    "invalid release bundle source was provided. Both name and version are mandatory. Provided name, version:"

\* convertSpecToReleaseBundlesSource from file i on, after the sources acc
RECURSIVE convertBundlesFrom(_, _, _)
convertBundlesFrom(files, i, acc) ==
    IF i > Len(files) THEN Built(acc)
    ELSE IF Len(files[i].Bundle) = 0 THEN convertBundlesFrom(files, i + 1, acc)
    ELSE LET parsed == ParseNameAndVersion(files[i].Bundle)
         IN  IF parsed.err
             THEN [val |-> acc, err |-> <<noDelimiterErrMsg, Concat(files[i].Bundle)>>]
             ELSE IF parsed.name = "" \/ parsed.version = ""
             THEN [val |-> acc,
                   err |-> <<invalidBundleSourceErrMsg, parsed.name, parsed.version>>]
             ELSE convertBundlesFrom(files, i + 1,
                      Append(acc, ReleaseBundleSource(parsed.name, parsed.version,
                                                      files[i].Project)))

convertSpecToReleaseBundlesSource(files) == convertBundlesFrom(files, 1, << >>)

\* rtServicesUtils.GetBuildNameAndNumberFromBuildIdentifier: name and number
\* around the last "/", the latest number for a bare name
GetBuildNameAndNumberFromBuildIdentifier(env, buildIdentifier) ==
    LET found ==
            IF Positions(buildIdentifier, "/") = {}
            THEN [name |-> Concat(buildIdentifier), number |-> LatestBuildNumber]
            ELSE LET i == LastPosition(buildIdentifier, "/")
                 IN  [name |-> Concat(SubSeq(buildIdentifier, 1, i - 1)),
                      number |-> Concat(SubSeq(buildIdentifier, i + 1,
                                               Len(buildIdentifier)))]
    IN  IF env.fault = "lookupErr" THEN [name |-> "", number |-> "", err |-> <<lookupErrMsg>>]
        ELSE [name |-> IF env.fault = "lookupNoName" THEN "" ELSE found.name,
              number |-> IF env.fault = "lookupNoNumber" THEN "" ELSE found.number,
              err |-> NoErr]

couldNotIdentifyBuildErrMsg == "could not identify a build info by the identifier"
couldNotFindBuildErrMsg == "could not find a build info with name"

getBuildDetailsFromIdentifier(env, buildIdentifier, project) ==
    LET found == GetBuildNameAndNumberFromBuildIdentifier(env, buildIdentifier)
    IN  IF found.err # NoErr THEN [name |-> "", number |-> "", err |-> found.err]
        ELSE IF found.name = "" \/ found.number = ""
        THEN [name |-> "", number |-> "",
              err |-> <<couldNotIdentifyBuildErrMsg, Concat(buildIdentifier)>>]
        ELSE found

invalidIncludeDepsErrMsg == "invalid value provided to the 'includeDeps' field"

\* convertSpecToBuildsSource from file i on, after the sources acc
RECURSIVE convertBuildsFrom(_, _, _, _)
convertBuildsFrom(env, files, i, acc) ==
    IF i > Len(files) THEN Built(acc)
    ELSE IF Len(files[i].Build) = 0 THEN convertBuildsFrom(env, files, i + 1, acc)
    ELSE LET found == getBuildDetailsFromIdentifier(env, files[i].Build, files[i].Project)
             includeDeps == StringToBool(files[i].IncludeDeps, FALSE)
         IN  IF found.err # NoErr THEN Failed(found.err)
             ELSE IF includeDeps.err THEN Failed(<<invalidIncludeDepsErrMsg>>)
             ELSE convertBuildsFrom(env, files, i + 1,
                      Append(acc, BuildSource(found.name, found.number,
                                     GetBuildInfoRepositoryByProject(files[i].Project),
                                     includeDeps.val)))

convertSpecToBuildsSource(env, files) == convertBuildsFrom(env, files, 1, << >>)

(* -------------------- sources of the legacy spec files ----------------- *)

\* SourceBuildSpec, an entry of the legacy builds-spec file
SourceBuildSpec(name, number, project, includeDeps) ==
    [ Name |-> name, Number |-> number, Project |-> project,
      IncludeDependencies |-> includeDeps ]

\* SourceReleaseBundleSpec, an entry of the legacy release-bundles-spec file
SourceReleaseBundleSpec(name, version, project) ==
    [ Name |-> name, Version |-> version, Project |-> project ]

getLatestBuildNumberIfEmpty(env, buildName, buildNumber, project) ==
    IF buildNumber # "" THEN Built(buildNumber)
    ELSE IF env.fault = "lookupErr" THEN Failed(<<lookupErrMsg>>)
    ELSE IF env.fault = "lookupNoNumber"
    THEN Failed(<<couldNotFindBuildErrMsg, buildName>>)
    ELSE Built(LatestBuildNumber)

\* convertBuildsSpecToBuildsSource from entry i on, after the sources acc
RECURSIVE convertBuildsSpecFrom(_, _, _, _)
convertBuildsSpecFrom(env, builds, i, acc) ==
    IF i > Len(builds) THEN Built(acc)
    ELSE LET build == builds[i]
             buildNumber == getLatestBuildNumberIfEmpty(env, build.Name, build.Number,
                                                        build.Project)
         IN  IF buildNumber.err # NoErr THEN Failed(buildNumber.err)
             ELSE convertBuildsSpecFrom(env, builds, i + 1,
                      Append(acc, BuildSource(build.Name, buildNumber.val,
                                     GetBuildInfoRepositoryByProject(build.Project),
                                     build.IncludeDependencies)))

convertBuildsSpecToBuildsSource(env, builds) == convertBuildsSpecFrom(env, builds, 1, << >>)

getBuildSourceFromBuildsSpec(rbc, env) ==
    IF env.fault = "readFile" THEN Failed(<<readFileErrMsg, rbc.buildsSpecPath>>)
    ELSE convertBuildsSpecToBuildsSource(env, env.buildsSpec)

createBuildSourceFromSpec(rbc, env) ==
    IF rbc.buildsSpecPath # "" THEN getBuildSourceFromBuildsSpec(rbc, env)
    ELSE convertSpecToBuildsSource(env, rbc.spec.Files)

convertToReleaseBundlesSource(bundles) ==
    MapSeq(bundles, LAMBDA rb : ReleaseBundleSource(rb.Name, rb.Version, rb.Project))

getReleaseBundlesSourceFromBundlesSpec(rbc, env) ==
    IF env.fault = "readFile" THEN Failed(<<readFileErrMsg, rbc.releaseBundlesSpecPath>>)
    ELSE Built(convertToReleaseBundlesSource(env.releaseBundlesSpec))

createReleaseBundleSourceFromSpec(rbc, env) ==
    IF rbc.releaseBundlesSpecPath # "" THEN getReleaseBundlesSourceFromBundlesSpec(rbc, env)
    ELSE convertSpecToReleaseBundlesSource(rbc.spec.Files)

releaseBundlesV2 == "release-bundles-v2"

\* the repository of the release bundles of a project
buildRepoKey(project) ==
    IF project = "" \/ project = "default" THEN releaseBundlesV2
    ELSE project \o "-" \o releaseBundlesV2

\* the repository key every bundle of a project is given
convertProjectKeyToRepositoryKey(rbSources) ==
    MapSeq(rbSources,
           LAMBDA rb : IF rb.ProjectKey # ""
                       THEN [rb EXCEPT !.RepositoryKey = rb.ProjectKey \o "-release-bundles-v2"]
                       ELSE rb)

(* --------------- artifacts, packages and aql of the spec file ----------- *)

getArtifactFilesFromSpec(files) == SelectSeq(files, LAMBDA file : file.Pattern # "")

\* services.ArtifactSource of the one artifact a pattern finds
ArtifactSource(file) == [Path |-> file.Pattern, Sha256 |-> "sha256"]

\* utils.SearchFilesBySpecs and aqlResultToArtifactsSource: one reader for
\* each pattern and one artifact in each reader, none when the search finds
\* nothing; a reader that cannot be read is the first one, and its error is
\* returned with the artifacts read before it
aqlResultToArtifactsSource(env, artifactFiles) ==
    IF readFails(env) /\ artifactFiles # << >>
    THEN [val |-> <<ArtifactSource(Head(artifactFiles))>>, err |-> <<readErrMsg>>]
    ELSE Built(IF env.fault = "searchEmpty" THEN << >>
               ELSE MapSeq(artifactFiles, ArtifactSource))

\* The deferred closure joins the error of the cleanup callback to the local
\* variable err after the results of the function are set: the function has
\* no named results, so the joined error is not returned.
createArtifactSourceFromSpec(rbc, env) ==
    IF env.fault = "rtManager" THEN Failed(<<rtManagerErrMsg>>)
    ELSE IF env.fault = "searchErr" THEN Failed(<<searchErrMsg>>)
    ELSE aqlResultToArtifactsSource(env, getArtifactFilesFromSpec(rbc.spec.Files))

\* the calls createArtifactSourceFromSpec makes: the deferred closure is
\* registered after the search has returned without an error
createArtifactSourceFromSpecCalls(rbc, env) ==
    IF env.fault = "rtManager" THEN <<"CreateServiceManager">>
    ELSE IF env.fault = "searchErr" THEN <<"CreateServiceManager", "SearchFilesBySpecs">>
    ELSE <<"CreateServiceManager", "SearchFilesBySpecs", "aqlResultToArtifactsSource",
           "callbackFunc">>

\* services.PackageSource of a FileGroup
PackageSource(file) ==
    [ PackageName |-> file.Package, PackageVersion |-> file.Version,
      PackageType |-> file.Type, RepositoryKey |-> file.RepoKey ]

createPackageSourceFromSpec(rbc) ==
    MapSeq(SelectSeq(rbc.spec.Files, LAMBDA file : file.Package # ""), PackageSource)

\* the query of the first FileGroup that has one
createAqlQueryFromSpec(rbc) ==
    LET withAql == SelectSeq(rbc.spec.Files, LAMBDA file : Len(file.Aql) > 0)
    IN  IF withAql = << >> THEN "" ELSE "items.find(" \o Head(withAql).Aql \o ")"

(* --------------------------- lifecycle calls --------------------------- *)

\* The outcome of a run: the error it returns and the calls it made to the
\* lifecycle service, each with its method and its sources. The source of a
\* single-source call is written as the one services.RbSource of its type.
NotSent(error) == [err |-> error, requests |-> << >>]
Sent(env, method, sources) ==
    [ err |-> IF env.fault = "backend" THEN <<backendErrMsg>> ELSE NoErr,
      requests |-> <<[method |-> method, sources |-> sources]>> ]

AqlSource(aql) == [EmptyRbSource EXCEPT !.SourceType = Aql, !.Aql = aql]
ArtifactsSource(artifacts) ==
    [EmptyRbSource EXCEPT !.SourceType = Artifacts, !.Artifacts = artifacts]
BuildsSource(builds) == [EmptyRbSource EXCEPT !.SourceType = Builds, !.Builds = builds]
ReleaseBundlesSource(bundles) ==
    [EmptyRbSource EXCEPT !.SourceType = ReleaseBundles, !.ReleaseBundles = bundles]
PackagesSource(packages) ==
    [EmptyRbSource EXCEPT !.SourceType = Packages, !.Packages = packages]

(* ----------------------- single-source create paths -------------------- *)

noBuildsErrMsg ==
    "at least one build is expected in order to create a release bundle from builds"
noReleaseBundlesErrMsg ==
    "at least one release bundle is expected in order to create a release bundle from release bundles"
noPackagesErrMsg ==
    "at least one package is expected in order to create a release bundle from packages"

createFromAql(rbc, env) ==
    Sent(env, "CreateReleaseBundleFromAqlDraft", <<AqlSource(createAqlQueryFromSpec(rbc))>>)

\* a variant that makes the call whatever the artifacts builder returned
createFromArtifacts_IgnoreErr(rbc, env) ==
    Sent(env, "CreateReleaseBundleFromArtifactsDraft",
         <<ArtifactsSource(createArtifactSourceFromSpec(rbc, env).val)>>)

createFromArtifacts(rbc, env) ==
    With(createArtifactSourceFromSpec(rbc, env),
         LAMBDA artifactsSource :
             IF artifactsSource.err # NoErr THEN NotSent(artifactsSource.err)
             ELSE Sent(env, "CreateReleaseBundleFromArtifactsDraft",
                       <<ArtifactsSource(artifactsSource.val)>>))

createFromBuilds(rbc, env) ==
    With(createBuildSourceFromSpec(rbc, env),
         LAMBDA buildsSource :
             IF buildsSource.err # NoErr THEN NotSent(buildsSource.err)
             ELSE IF Len(buildsSource.val) = 0 THEN NotSent(<<noBuildsErrMsg>>)
             ELSE Sent(env, "CreateReleaseBundleFromBuildsDraft",
                       <<BuildsSource(buildsSource.val)>>))

createFromReleaseBundles(rbc, env) ==
    With(createReleaseBundleSourceFromSpec(rbc, env),
         LAMBDA releaseBundlesSource :
             IF releaseBundlesSource.err # NoErr THEN NotSent(releaseBundlesSource.err)
             ELSE With(convertProjectKeyToRepositoryKey(releaseBundlesSource.val),
                       LAMBDA converted :
                           IF Len(converted) = 0 THEN NotSent(<<noReleaseBundlesErrMsg>>)
                           ELSE Sent(env, "CreateReleaseBundleFromBundlesDraft",
                                     <<ReleaseBundlesSource(converted)>>)))

createFromPackages(rbc, env) ==
    With(createPackageSourceFromSpec(rbc),
         LAMBDA packageSource :
             IF Len(packageSource) = 0 THEN NotSent(<<noPackagesErrMsg>>)
             ELSE Sent(env, "CreateReleaseBundleFromPackagesDraft",
                       <<PackagesSource(packageSource)>>))

(* ------------------ multiple sources of the spec file ------------------ *)

unexpectedSourceTypeErrMsg == "unexpected source type: "

\* one append* helper: the builder of a source type and the source appended
\* when it built something (an aql source is appended always)
appendSource(rbc, env, sourceType, sources) ==
    CASE sourceType = ReleaseBundles ->
            With(createReleaseBundleSourceFromSpec(rbc, env),
                 LAMBDA rbSource :
                     IF rbSource.err # NoErr THEN Failed(rbSource.err)
                     ELSE Built(IF Len(rbSource.val) > 0
                                THEN Append(sources, ReleaseBundlesSource(rbSource.val))
                                ELSE sources))
      [] sourceType = Builds ->
            With(createBuildSourceFromSpec(rbc, env),
                 LAMBDA buildsSource :
                     IF buildsSource.err # NoErr THEN Failed(buildsSource.err)
                     ELSE Built(IF Len(buildsSource.val) > 0
                                THEN Append(sources, BuildsSource(buildsSource.val))
                                ELSE sources))
      [] sourceType = Artifacts ->
            With(createArtifactSourceFromSpec(rbc, env),
                 LAMBDA artifactsSource :
                     IF artifactsSource.err # NoErr THEN Failed(artifactsSource.err)
                     ELSE Built(IF Len(artifactsSource.val) > 0
                                THEN Append(sources, ArtifactsSource(artifactsSource.val))
                                ELSE sources))
      [] sourceType = Packages ->
            With(createPackageSourceFromSpec(rbc),
                 LAMBDA packagesSource :
                     Built(IF Len(packagesSource) > 0
                           THEN Append(sources, PackagesSource(packagesSource))
                           ELSE sources))
      [] sourceType = Aql ->
            Built(Append(sources, AqlSource(createAqlQueryFromSpec(rbc))))
      [] OTHER -> Failed(<<unexpectedSourceTypeErrMsg, sourceType>>)

\* buildReleaseBundleSourcesParamsFromSpec from detected type i on: a type
\* already handled is skipped
RECURSIVE buildFromSpecFrom(_, _, _, _, _)
buildFromSpecFrom(rbc, env, detectedSources, i, sources) ==
    IF i > Len(detectedSources) THEN Built(sources)
    ELSE IF \E j \in 1..(i - 1) : detectedSources[j] = detectedSources[i]
    THEN buildFromSpecFrom(rbc, env, detectedSources, i + 1, sources)
    ELSE With(appendSource(rbc, env, detectedSources[i], sources),
              LAMBDA appended :
                  IF appended.err # NoErr THEN Failed(appended.err)
                  ELSE buildFromSpecFrom(rbc, env, detectedSources, i + 1, appended.val))

\* a variant that goes through the detected types from the last one
buildReleaseBundleSourcesParamsFromSpec_LastFirst(rbc, env, detectedSources) ==
    buildFromSpecFrom(rbc, env,
                      [i \in 1..Len(detectedSources) |->
                          detectedSources[Len(detectedSources) + 1 - i]],
                      1, << >>)

buildReleaseBundleSourcesParamsFromSpec(rbc, env, detectedSources) ==
    buildFromSpecFrom(rbc, env, detectedSources, 1, << >>)

(* --------------------- identification of the sources ------------------- *)

\* detectSourceTypesFromSpec from file i on, after the detected types acc
RECURSIVE detectFrom(_, _, _, _)
detectFrom(files, multiSrcAndPackageSupported, i, acc) ==
    IF i > Len(files) THEN Built(acc)
    ELSE With(validateFile(files[i], multiSrcAndPackageSupported),
              LAMBDA validated :
                  IF validated.err # NoErr THEN Failed(validated.err)
                  ELSE detectFrom(files, multiSrcAndPackageSupported, i + 1,
                                  Append(acc, validated.sourceType)))

detectSourceTypesFromSpec(files, multiSrcAndPackageSupported) ==
    detectFrom(files, multiSrcAndPackageSupported, 1, << >>)

noFileGroupErrMsg == "spec must include at least one file group"

\* the detected sources, or the error of their validation
validatedSources(detectedCreationSources, multipleSourcesAndPackageSupported) ==
    IF detectedCreationSources.err # NoErr THEN detectedCreationSources
    ELSE With(validateCreationSources(detectedCreationSources.val,
                                      multipleSourcesAndPackageSupported),
              LAMBDA err : IF err # NoErr THEN Failed(err) ELSE detectedCreationSources)

validateAndIdentifyRbCreationSpec(files, multipleSourcesAndPackageSupported) ==
    IF Len(files) = 0 THEN Failed(<<noFileGroupErrMsg>>)
    ELSE validatedSources(detectSourceTypesFromSpec(files,
                                                    multipleSourcesAndPackageSupported),
                          multipleSourcesAndPackageSupported)

\* the types of the legacy spec paths, replaced by those of the spec file when
\* there is one; the nil list is << >>
identifySourceTypeBySpecOrByLegacyCommands(rbc, multipleSourcesAndPackagesSupported) ==
    LET sourceTypes ==
            (IF rbc.buildsSpecPath # "" THEN <<Builds>> ELSE << >>)
            \o (IF rbc.releaseBundlesSpecPath # "" THEN <<ReleaseBundles>> ELSE << >>)
    IN  IF rbc.spec.state # "nil"
        THEN validateAndIdentifyRbCreationSpec(rbc.spec.Files,
                                               multipleSourcesAndPackagesSupported)
        ELSE Built(sourceTypes)

\* a variant that takes a list of one entry only for a single source type
isSingleSourceType_LengthOne(sourceTypes) == Len(sourceTypes) = 1

isSingleSourceType(sourceTypes) ==
    \/ Len(sourceTypes) = 1
    \/ \A i \in 2..Len(sourceTypes) : sourceTypes[i] = sourceTypes[1]

noSpecFileInputErrMsg == "no spec file input"

multiSourcesDefinedFromSpec(rbc) ==
    IF rbc.spec.state = "files"
    THEN validatedSources(detectSourceTypesFromSpec(rbc.spec.Files, TRUE), TRUE)
    ELSE Failed(<<noSpecFileInputErrMsg>>)

\* a variant that prefers the spec file to the flags
getMultipleSourcesIfDefined_SpecFirst(rbc, env) ==
    IF rbc.spec.state = "files"
    THEN With(multiSourcesDefinedFromSpec(rbc),
              LAMBDA detectedCreationSources :
                  IF detectedCreationSources.err # NoErr THEN detectedCreationSources
                  ELSE buildReleaseBundleSourcesParamsFromSpec(
                           rbc, env, detectedCreationSources.val))
    ELSE Built(buildReleaseBundleSourcesParams(rbc))

\* the flags first, the spec file otherwise
getMultipleSourcesIfDefined(rbc, env) ==
    IF atLeastASingleMultiSourceRBDefinedFromCommand(rbc)
    THEN Built(buildReleaseBundleSourcesParams(rbc))
    ELSE With(multiSourcesDefinedFromSpec(rbc),
              LAMBDA detectedCreationSources :
                  IF detectedCreationSources.err # NoErr THEN detectedCreationSources
                  ELSE buildReleaseBundleSourcesParamsFromSpec(
                           rbc, env, detectedCreationSources.val))

\* a variant that does not look at the type of the first source
updateReleaseBundleRepoKeyWithProject_AnyFirst(rbSources) ==
    MapSeq(rbSources,
           LAMBDA source :
               [source EXCEPT !.ReleaseBundles =
                   convertProjectKeyToRepositoryKey(source.ReleaseBundles)])

\* the repository key of every bundle of a project, in every source, when the
\* first source is of release bundles
updateReleaseBundleRepoKeyWithProject(rbSources) ==
    IF Len(rbSources) = 0 \/ rbSources[1].SourceType # ReleaseBundles THEN rbSources
    ELSE MapSeq(rbSources,
                LAMBDA source :
                    [source EXCEPT !.ReleaseBundles =
                        convertProjectKeyToRepositoryKey(source.ReleaseBundles)])

createFromMultipleSources(env, sources) ==
    Sent(env, "CreateReleaseBundlesFromMultipleSourcesDraft", sources)

(* --------------------- ReleaseBundleCreateCommand.Run ------------------- *)

unknownSourceErrMsg == "unknown source for release bundle creation was provided"
unableToIdentifySourceErrMsg ==
    "release bundle creation failed, unable to identify source for creation"

\* a variant of the probe that finds the capability on every backend
isReleaseBundleCreationWithMultiSourcesSupported_Always(env) == TRUE

\* the probe of the multi-source capability
isReleaseBundleCreationWithMultiSourcesSupported(env) ==
    ValidateFeatureSupportedVersion(env.fault = "probeFetch", env.version,
        minArtifactoryVersionForMultiSourceAndPackagesSupport) = NoErr

\* the dispatch of a list of one distinct source type
createFromSingleSource(rbc, env, sourceType) ==
    CASE sourceType = Aql -> createFromAql(rbc, env)
      [] sourceType = Artifacts -> createFromArtifacts(rbc, env)
      [] sourceType = Builds -> createFromBuilds(rbc, env)
      [] sourceType = ReleaseBundles -> createFromReleaseBundles(rbc, env)
      [] sourceType = Packages -> createFromPackages(rbc, env)
      [] OTHER -> NotSent(<<unknownSourceErrMsg>>)

\* the multi-source path of Run
createFromMultipleSourcesIfDefined(rbc, env) ==
    With(getMultipleSourcesIfDefined(rbc, env),
         LAMBDA sources :
             IF sources.err # NoErr THEN NotSent(sources.err)
             ELSE createFromMultipleSources(env,
                      updateReleaseBundleRepoKeyWithProject(sources.val)))

\* Run after the baseline version check and the prerequisites
createFromIdentified(rbc, env, multiSupported) ==
    With(identifySourceTypeBySpecOrByLegacyCommands(rbc, multiSupported),
         LAMBDA sourceTypes :
             IF sourceTypes.err # NoErr THEN NotSent(sourceTypes.err)
             ELSE IF sourceTypes.val # << >> /\ isSingleSourceType(sourceTypes.val)
             THEN createFromSingleSource(rbc, env, sourceTypes.val[1])
             ELSE IF multiSupported THEN createFromMultipleSourcesIfDefined(rbc, env)
             ELSE NotSent(<<unableToIdentifySourceErrMsg>>))

ReleaseBundleCreateCommand_Run(rbc, env) ==
    With(validateArtifactoryVersionSupported(env.fault = "baselineFetch", env.version),
         LAMBDA baseline :
             IF baseline # NoErr THEN NotSent(baseline)
             ELSE IF env.fault = "manager" THEN NotSent(<<managerErrMsg>>)
             ELSE createFromIdentified(
                      rbc, env, isReleaseBundleCreationWithMultiSourcesSupported(env)))

(* --------------------- ReleaseBundleUpdateCommand.Run ------------------- *)

noSpecOrFlagsErrMsg == "no spec file or source flags provided"
noAddSourcesErrMsg == "at least one source must be provided to update a release bundle"

\* builds first, release bundles second
buildSourcesFromCommandFlags(rbu) ==
    With(IF rbu.sourcesBuilds # << >>
         THEN buildRbBuildsSources(rbu.sourcesBuilds, rbu.rbProjectKey, << >>)
         ELSE << >>,
         LAMBDA withBuilds :
             IF rbu.sourcesReleaseBundles # << >>
             THEN buildRbReleaseBundlesSources(rbu.sourcesReleaseBundles,
                                               rbu.rbProjectKey, withBuilds)
             ELSE withBuilds)

\* one case of convertSpecToSources: the builder of a source type and the
\* source appended when it built something
convertSourceType(rbu, env, sourceType, sources) ==
    CASE sourceType = ReleaseBundles ->
            With(convertSpecToReleaseBundlesSource(rbu.spec.Files),
                 LAMBDA rbSources :
                     IF rbSources.err # NoErr THEN Failed(rbSources.err)
                     ELSE Built(IF Len(rbSources.val) > 0
                                THEN Append(sources, ReleaseBundlesSource(rbSources.val))
                                ELSE sources))
      [] sourceType = Builds ->
            With(convertSpecToBuildsSource(env, rbu.spec.Files),
                 LAMBDA buildSources :
                     IF buildSources.err # NoErr THEN Failed(buildSources.err)
                     ELSE Built(IF Len(buildSources.val) > 0
                                THEN Append(sources, BuildsSource(buildSources.val))
                                ELSE sources))
      [] sourceType = Artifacts ->
            With(createArtifactSourceFromSpec(rbu, env),
                 LAMBDA artifactSources :
                     IF artifactSources.err # NoErr THEN Failed(artifactSources.err)
                     ELSE Built(IF Len(artifactSources.val) > 0
                                THEN Append(sources, ArtifactsSource(artifactSources.val))
                                ELSE sources))
      [] OTHER -> Failed(<<unexpectedSourceTypeErrMsg, sourceType>>)

\* convertSpecToSources from detected type i on: a type already handled is
\* skipped
RECURSIVE convertSpecToSourcesFrom(_, _, _, _, _)
convertSpecToSourcesFrom(rbu, env, detectedSources, i, sources) ==
    IF i > Len(detectedSources) THEN Built(sources)
    ELSE IF \E j \in 1..(i - 1) : detectedSources[j] = detectedSources[i]
    THEN convertSpecToSourcesFrom(rbu, env, detectedSources, i + 1, sources)
    ELSE With(convertSourceType(rbu, env, detectedSources[i], sources),
              LAMBDA converted :
                  IF converted.err # NoErr THEN Failed(converted.err)
                  ELSE convertSpecToSourcesFrom(rbu, env, detectedSources, i + 1,
                                                converted.val))

\* a variant that passes over the types it has no builder for
convertSpecToSources_PassOver(rbu, env, detectedSources) ==
    convertSpecToSourcesFrom(
        rbu, env, SelectSeq(detectedSources, LAMBDA t : t \notin {Aql, Packages}), 1, << >>)

convertSpecToSources(rbu, env, detectedSources) ==
    convertSpecToSourcesFrom(rbu, env, detectedSources, 1, << >>)

buildSourcesFromSpec(rbu, env) ==
    With(validatedSources(detectSourceTypesFromSpec(rbu.spec.Files, TRUE), TRUE),
         LAMBDA detectedSources :
             IF detectedSources.err # NoErr THEN detectedSources
             ELSE convertSpecToSources(rbu, env, detectedSources.val))

\* a variant that prefers a spec file to the flags
getAddSources_SpecFirst(rbu, env) ==
    IF rbu.spec.state = "files" THEN buildSourcesFromSpec(rbu, env)
    ELSE IF rbu.sourcesBuilds # << >> \/ rbu.sourcesReleaseBundles # << >>
    THEN Built(buildSourcesFromCommandFlags(rbu))
    ELSE Failed(<<noSpecOrFlagsErrMsg>>)

\* the flags first, the spec file otherwise
getAddSources(rbu, env) ==
    IF rbu.sourcesBuilds # << >> \/ rbu.sourcesReleaseBundles # << >>
    THEN Built(buildSourcesFromCommandFlags(rbu))
    ELSE IF rbu.spec.state # "files" THEN Failed(<<noSpecOrFlagsErrMsg>>)
    ELSE buildSourcesFromSpec(rbu, env)

\* Run after the baseline version check and the prerequisites
updateWithAddSources(env, addSources) ==
    IF addSources.err # NoErr THEN NotSent(addSources.err)
    ELSE IF Len(addSources.val) = 0 THEN NotSent(<<noAddSourcesErrMsg>>)
    ELSE Sent(env, "UpdateReleaseBundleFromMultipleSources", addSources.val)

ReleaseBundleUpdateCommand_Run(rbu, env) ==
    With(validateArtifactoryVersionSupported(env.fault = "baselineFetch", env.version),
         LAMBDA baseline :
             IF baseline # NoErr THEN NotSent(baseline)
             ELSE IF env.fault = "manager" THEN NotSent(<<managerErrMsg>>)
             ELSE updateWithAddSources(env, getAddSources(rbu, env)))

(* ------------------------ the command-line layer ----------------------- *)

\* components.Context, as far as create and update read it: the number of
\* arguments, whether an argument asks for the command help, the boolean --add
\* flag, and the string flags, a string flag being set when its value is not
\* empty. The --spec flag carries the content of the file it names.
wrongNumberOfArgumentsErrMsg == "Wrong number of arguments"
onlyMultipleSourcesErrMsg ==
    "only multiple sources must be supplied: --source-type-release-bundles, --source-type-builds, or one of: --spec, --builds or --release-bundles"
exactlyOneMethodErrMsg ==
    "exactly one creation source must be supplied: --spec, --builds, or --release-bundles."
buildNameNumberErrMsg ==
    "Either --build-name or JFROG_CLI_BUILD_NAME, and --build-number or JFROG_CLI_BUILD_NUMBER must be defined"
noCreationSpecErrMsg ==
    "either the --spec flag must be provided, or both --build-name and --build-number flags (or their corresponding environment variables JFROG_CLI_BUILD_NAME and JFROG_CLI_BUILD_NUMBER) must be set"
noOperationFlagErrMsg == "at least one operation flag must be provided: --add"
noSourceMethodErrMsg ==
    "either --spec or source type flags (--source-type-release-bundles, --source-type-builds) must be provided"
specReadErrMsg == "failed to read the file of the --spec flag"

\* pluginsCommon.ShowCmdHelpIfNeeded: the help is shown when the only argument
\* is "help"
ShowCmdHelpIfNeeded(c) == [show |-> c.args = 1 /\ c.help, err |-> NoErr]

\* the version check of the multi-source flags
multipleSourcesSupported(c, env) ==
    ValidateFeatureSupportedVersion(env.fault = "validationFetch", env.version,
                                    minArtifactoryVersionForMultiSourceSupport)

validateSingleCreationMethod(methodCount) ==
    IF methodCount > 1 THEN <<exactlyOneMethodErrMsg>> ELSE NoErr

\* components.Context.GetStringFlagValue of the build flags
GetStringFlagValue(c, flag) ==
    IF flag = "build-name" THEN c.buildName ELSE c.buildNumber

\* components.Context.IsFlagSet of the build flags: a flag given a value, or
\* given the empty value
IsFlagSet(c, flag) == GetStringFlagValue(c, flag) # "" \/ flag \in c.emptyFlags

\* os.Getenv
Getenv(env, envVar) == env.osEnv[envVar]

areBuildFlagsSet(c) == IsFlagSet(c, "build-name") \/ IsFlagSet(c, "build-number")

areBuildEnvVarsSet(env) ==
    Getenv(env, "JFROG_CLI_BUILD_NUMBER") # "" /\ Getenv(env, "JFROG_CLI_BUILD_NAME") # ""

validateCreationValuesPresence(c, env, methodCount) ==
    IF methodCount = 0 /\ ~areBuildFlagsSet(c) /\ ~areBuildEnvVarsSet(env)
    THEN <<buildNameNumberErrMsg>>
    ELSE NoErr

validateRegularMethods(c, env, methodCount) ==
    IF validateSingleCreationMethod(methodCount) # NoErr
    THEN validateSingleCreationMethod(methodCount)
    ELSE validateCreationValuesPresence(c, env, methodCount)

validateCreationMethods(c, env, regularMethodsCount, multiSrcMethodsCount) ==
    IF multiSrcMethodsCount > 0
    THEN IF multipleSourcesSupported(c, env) # NoErr THEN multipleSourcesSupported(c, env)
         ELSE IF regularMethodsCount > 0 THEN <<onlyMultipleSourcesErrMsg>>
         ELSE NoErr
    ELSE validateRegularMethods(c, env, regularMethodsCount)

assertValidCreationMethod(c, env) ==
    LET monoReleaseBundleSource ==
            <<c.spec.set, c.builds # "", c.releaseBundles # "">>
        multiReleaseBundleSources ==
            <<c.sourceTypeReleaseBundles # << >>, c.sourceTypeBuilds # << >> >>
    IN  validateCreationMethods(c, env, SumTrueValues(monoReleaseBundleSource),
                                SumTrueValues(multiReleaseBundleSources))

validateCreateReleaseBundleContext(c, env) ==
    IF ShowCmdHelpIfNeeded(c).show \/ ShowCmdHelpIfNeeded(c).err # NoErr
    THEN ShowCmdHelpIfNeeded(c).err
    ELSE IF c.args # 2 THEN <<wrongNumberOfArgumentsErrMsg>>
    ELSE assertValidCreationMethod(c, env)

\* commonCliUtils.GetSpec: the content of the file of the --spec flag
GetSpec(c, env) ==
    IF env.fault = "specRead"
    THEN [val |-> NilSpec, err |-> <<specReadErrMsg>>]
    ELSE Built(c.spec.content)

\* speccore.CreateSpecFromBuildNameNumberAndProject
CreateSpecFromBuildNameNumberAndProject(buildName, buildNumber, project) ==
    SpecOf(<<[EmptyTextFile EXCEPT !.Build = <<buildName, "/", buildNumber>>,
                                   !.Project = project]>>)

\* a variant that never reads the environment
getStringFlagOrEnv_FlagOnly(c, env, flag, envVar) == GetStringFlagValue(c, flag)

getStringFlagOrEnv(c, env, flag, envVar) ==
    IF IsFlagSet(c, flag) THEN GetStringFlagValue(c, flag) ELSE Getenv(env, envVar)

\* the spec of the build name and the build number, or the error
specOfBuildNameAndNumber(buildName, buildNumber, project) ==
    IF buildName # "" /\ buildNumber # ""
    THEN Built(CreateSpecFromBuildNameNumberAndProject(buildName, buildNumber, project))
    ELSE [val |-> NilSpec, err |-> <<noCreationSpecErrMsg>>]

getReleaseBundleCreationSpec(c, env) ==
    IF c.builds # "" \/ c.releaseBundles # "" THEN Built(NilSpec)
    ELSE IF c.sourceTypeReleaseBundles # << >> \/ c.sourceTypeBuilds # << >>
    THEN Built(NilSpec)
    ELSE IF c.spec.set THEN GetSpec(c, env)
    ELSE specOfBuildNameAndNumber(
             getStringFlagOrEnv(c, env, "build-name", "JFROG_CLI_BUILD_NAME"),
             getStringFlagOrEnv(c, env, "build-number", "JFROG_CLI_BUILD_NUMBER"),
             c.project)

\* the command create builds of the context and of the creation spec: it is
\* given the multi-source flags when the backend supports them
createCmdOf(c, creationSpec, supported) ==
    [ spec |-> creationSpec,
      buildsSpecPath |-> c.builds,
      releaseBundlesSpecPath |-> c.releaseBundles,
      sourcesBuilds |-> IF supported THEN c.sourceTypeBuilds ELSE << >>,
      sourcesReleaseBundles |-> IF supported THEN c.sourceTypeReleaseBundles ELSE << >>,
      rbProjectKey |-> c.project ]

\* create after the validation of the context
createWithSpec(c, env, creationSpec) ==
    IF creationSpec.err # NoErr THEN NotSent(creationSpec.err)
    ELSE ReleaseBundleCreateCommand_Run(
             createCmdOf(c, creationSpec.val,
                 ValidateFeatureSupportedVersion(env.fault = "createFetch", env.version,
                     minArtifactoryVersionForMultiSourceSupport) = NoErr),
             env)

create(c, env) ==
    With(validateCreateReleaseBundleContext(c, env),
         LAMBDA err :
             IF err # NoErr THEN NotSent(err)
             ELSE createWithSpec(c, env, getReleaseBundleCreationSpec(c, env)))

\* a variant that does not ask for the operation flag
validateUpdateReleaseBundleContext_NoOperationFlag(c) ==
    IF ShowCmdHelpIfNeeded(c).show \/ ShowCmdHelpIfNeeded(c).err # NoErr
    THEN ShowCmdHelpIfNeeded(c).err
    ELSE IF c.args # 2 THEN <<wrongNumberOfArgumentsErrMsg>>
    ELSE IF c.spec.set \/ c.sourceTypeReleaseBundles # << >> \/ c.sourceTypeBuilds # << >>
    THEN NoErr
    ELSE <<noSourceMethodErrMsg>>

validateUpdateReleaseBundleContext(c) ==
    IF ShowCmdHelpIfNeeded(c).show \/ ShowCmdHelpIfNeeded(c).err # NoErr
    THEN ShowCmdHelpIfNeeded(c).err
    ELSE IF c.args # 2 THEN <<wrongNumberOfArgumentsErrMsg>>
    ELSE IF ~c.add THEN <<noOperationFlagErrMsg>>
    ELSE LET hasSpec == c.spec.set
             hasSourceTypeFlags ==
                 c.sourceTypeReleaseBundles # << >> \/ c.sourceTypeBuilds # << >>
         IN  IF ~hasSpec /\ ~hasSourceTypeFlags THEN <<noSourceMethodErrMsg>>
             ELSE NoErr

\* the command update builds of the context and of the spec file
updateCmdOf(c, updateSpec) ==
    [ spec |-> updateSpec,
      buildsSpecPath |-> "",
      releaseBundlesSpecPath |-> "",
      sourcesBuilds |-> c.sourceTypeBuilds,
      sourcesReleaseBundles |-> c.sourceTypeReleaseBundles,
      rbProjectKey |-> c.project ]

\* update after the validation of the context
updateWithSpec(c, env, updateSpec) ==
    IF updateSpec.err # NoErr THEN NotSent(updateSpec.err)
    ELSE ReleaseBundleUpdateCommand_Run(updateCmdOf(c, updateSpec.val), env)

\* update: the spec file is read when the --spec flag is set
update(c, env) ==
    With(validateUpdateReleaseBundleContext(c),
         LAMBDA err :
             IF err # NoErr THEN NotSent(err)
             ELSE updateWithSpec(c, env,
                      IF c.spec.set THEN GetSpec(c, env) ELSE Built(NilSpec)))

(* ------------------- commands and their environment -------------------- *)

\* the Artifactory versions a run meets: below the lifecycle minimum, the
\* minimum, the multi-source minimum
Versions == {<<7, 63, 1>>, <<7, 63, 2>>, <<7, 114, 0>>}

\* the FileGroups a generated spec file is made of: one of each source kind,
\* a bundle identifier with no version and a FileGroup with an unsupported
\* field
RunFileGroups ==
    { [EmptyTextFile EXCEPT !.Aql = "abc"],
      [EmptyTextFile EXCEPT !.Build = <<"b1", "/", "5">>],
      [EmptyTextFile EXCEPT !.Bundle = <<"rb1", "/", "1.0">>, !.Project = "proj"],
      [EmptyTextFile EXCEPT !.Bundle = <<"rb3">>],
      [EmptyTextFile EXCEPT !.Pattern = "repo/path/file"],
      [EmptyTextFile EXCEPT !.Package = "pkg", !.Version = "1.0.0", !.Type = "npm",
                        !.RepoKey = "repo"],
      [EmptyTextFile EXCEPT !.Target = "target"] }

\* the sequences of at most n elements of S
RECURSIVE SeqsUpTo(_, _)
SeqsUpTo(S, n) ==
    IF n = 0 THEN {<< >>}
    ELSE LET shorter == SeqsUpTo(S, n - 1)
         IN  shorter \cup {Append(s, x) : s \in shorter, x \in S}

RunSpecs == {NilSpec, NilFilesSpec} \cup {SpecOf(files) : files \in SeqsUpTo(RunFileGroups, MaxFiles)}

\* the values of --source-type-builds and --source-type-release-bundles
SourcesBuildsValues == {<< >>, <<"name", "=", "b1", ",", "id", "=", "5">>}
SourcesReleaseBundlesValues == {<< >>, <<"name", "=", "rb1", ",", "version", "=", "1.0">>}

\* the contents of a legacy builds-spec file and of a legacy
\* release-bundles-spec file
BuildsSpecs ==
    { <<SourceBuildSpec("b1", "5", "", FALSE)>>,
      <<SourceBuildSpec("b1", "", "proj", TRUE)>>,
      <<SourceBuildSpec("", "5", "", FALSE)>> }
ReleaseBundlesSpecs ==
    { <<SourceReleaseBundleSpec("rb1", "1.0", "proj"),
        SourceReleaseBundleSpec("rb2", "2.0", "")>> }

\* the fields of a create or update command that select its sources
Commands ==
    [ spec : RunSpecs,
      buildsSpecPath : {"", "builds.json"},
      releaseBundlesSpecPath : {"", "bundles.json"},
      sourcesBuilds : SourcesBuildsValues,
      sourcesReleaseBundles : SourcesReleaseBundlesValues,
      rbProjectKey : {"", "proj"} ]

\* a command with no source
NoCommand ==
    [ spec |-> NilSpec, buildsSpecPath |-> "", releaseBundlesSpecPath |-> "",
      sourcesBuilds |-> << >>, sourcesReleaseBundles |-> << >>, rbProjectKey |-> "" ]

\* the build environment variables, both unset
NoBuildEnvVars == [JFROG_CLI_BUILD_NAME |-> "", JFROG_CLI_BUILD_NUMBER |-> ""]

\* the environments of a command: the legacy files exist when the command
\* names them
Environments(command) ==
    { [ version |-> v, fault |-> f,
        buildsSpec |-> IF command.buildsSpecPath = "" THEN << >> ELSE b,
        releaseBundlesSpec |-> IF command.releaseBundlesSpecPath = "" THEN << >> ELSE r,
        osEnv |-> NoBuildEnvVars ] :
      v \in Versions, f \in Faults, b \in BuildsSpecs, r \in ReleaseBundlesSpecs }

\* the environments of a run: the build lookup fails in one way
RunEnvironments(command) ==
    {e \in Environments(command) : e.fault \notin {"lookupNoName", "lookupNoNumber"}}

NoEnvironment ==
    [ version |-> <<7, 114, 0>>, fault |-> "none", buildsSpec |-> << >>,
      releaseBundlesSpec |-> << >>, osEnv |-> NoBuildEnvVars ]

\* the FileGroups of the file of a --spec flag
CliFileGroups ==
    { [EmptyTextFile EXCEPT !.Build = <<"b1", "/", "5">>],
      [EmptyTextFile EXCEPT !.Bundle = <<"rb1", "/", "1.0">>, !.Project = "proj"],
      [EmptyTextFile EXCEPT !.Pattern = "repo/path/file"] }

\* the --spec flag: not set, or set with the content of its file
NoSpecFlag == [set |-> FALSE, content |-> NilSpec]
SpecFlags ==
    {NoSpecFlag}
    \cup {[set |-> TRUE, content |-> s] :
            s \in {NilFilesSpec}
                  \cup {SpecOf(files) : files \in SeqsUpTo(CliFileGroups, MaxCliFiles)}}

\* the contexts of a create or update invocation
Contexts ==
    [ args : 0..MaxArgs,
      help : BOOLEAN,
      add : BOOLEAN,
      spec : SpecFlags,
      builds : {"", "builds.json"},
      releaseBundles : {"", "bundles.json"},
      sourceTypeBuilds : SourcesBuildsValues,
      sourceTypeReleaseBundles : SourcesReleaseBundlesValues,
      buildName : {"", "b1"},
      buildNumber : {"", "5"},
      emptyFlags : {{}},
      project : {""} ]

\* a context with no argument and no flag
NoContext ==
    [ args |-> 0, help |-> FALSE, add |-> FALSE, spec |-> NoSpecFlag, builds |-> "",
      releaseBundles |-> "", sourceTypeBuilds |-> << >>,
      sourceTypeReleaseBundles |-> << >>, buildName |-> "", buildNumber |-> "",
      emptyFlags |-> {}, project |-> "" ]

\* what an invocation meets outside the context: a version, the legacy files
\* and at most one failing collaborator
CliFaults == {"none", "validationFetch", "createFetch", "specRead", "backend"}
CliEnvironments ==
    { [ version |-> v, fault |-> f,
        buildsSpec |-> <<SourceBuildSpec("b1", "5", "", FALSE)>>,
        releaseBundlesSpec |-> <<SourceReleaseBundleSpec("rb1", "1.0", "proj")>>,
        osEnv |-> NoBuildEnvVars ] :
      v \in Versions, f \in CliFaults }

\* the contexts getReleaseBundleCreationSpec reads: the source flags, the build
\* flags with a value, with the empty value or not given, and the project
CreationSpecContexts ==
    { [NoContext EXCEPT !.spec = s, !.builds = b, !.releaseBundles = r,
                        !.sourceTypeBuilds = sb, !.sourceTypeReleaseBundles = srb,
                        !.buildName = name, !.buildNumber = number,
                        !.emptyFlags = empty, !.project = p] :
      s \in SpecFlags, b \in {"", "builds.json"}, r \in {"", "bundles.json"},
      sb \in SourcesBuildsValues, srb \in SourcesReleaseBundlesValues,
      name \in {"", "b1"}, number \in {"", "5"},
      empty \in SUBSET {"build-name", "build-number"}, p \in {"", "proj"} }

\* the environments getReleaseBundleCreationSpec reads: the build environment
\* variables, and a spec file that may not be readable
CreationSpecEnvironments ==
    { [NoEnvironment EXCEPT !.fault = f,
                            !.osEnv = [JFROG_CLI_BUILD_NAME |-> name,
                                       JFROG_CLI_BUILD_NUMBER |-> number]] :
      f \in {"none", "specRead"}, name \in {"", "Common-builds"},
      number \in {"", "2.0.0"} }

\* the FileGroups handed to the source builders: bundle identifiers with and
\* without a name, a version and a project, build identifiers with and
\* without a number, and a pattern
BuilderFileGroups ==
    { [EmptyTextFile EXCEPT !.Bundle = <<"rb1", "/", "1.0">>, !.Project = "proj-a"],
      [EmptyTextFile EXCEPT !.Bundle = <<"rb2", "/", "2.0">>],
      [EmptyTextFile EXCEPT !.Bundle = <<"rb3">>, !.Project = "proj-b"],
      [EmptyTextFile EXCEPT !.Bundle = <<"/", "1.0">>],
      [EmptyTextFile EXCEPT !.Bundle = <<"rb4", "/">>],
      [EmptyTextFile EXCEPT !.Build = <<"b1", "/", "5">>],
      [EmptyTextFile EXCEPT !.Build = <<"b2">>, !.Project = "proj-a",
                            !.IncludeDeps = "true"],
      [EmptyTextFile EXCEPT !.Build = <<"b3", "/", "7">>, !.IncludeDeps = "bad"],
      [EmptyTextFile EXCEPT !.Pattern = "repo/path/file"] }

\* the commands whose sources the builders build: a spec file, with or
\* without a legacy builds-spec path
BuilderCommands ==
    { [NoCommand EXCEPT !.spec = SpecOf(files), !.buildsSpecPath = path] :
      files \in SeqsUpTo(BuilderFileGroups, MaxBuilderFiles),
      path \in {"", "builds.json"} }

\* the FileGroups handed to the artifacts builder
ArtifactsFileGroups ==
    { [EmptyTextFile EXCEPT !.Pattern = "repo/path/file"],
      [EmptyTextFile EXCEPT !.Pattern = "repo/other/*"],
      [EmptyTextFile EXCEPT !.Build = <<"b1", "/", "5">>] }

ArtifactsCommands ==
    { [NoCommand EXCEPT !.spec = SpecOf(files)] :
      files \in SeqsUpTo(ArtifactsFileGroups, MaxBuilderFiles) }

ArtifactsEnvironments == { [NoEnvironment EXCEPT !.fault = f] : f \in ArtifactsFaults }

\* the collaborators that may fail under a builder
BuilderFaults == {"none", "readFile", "lookupErr", "lookupNoName", "lookupNoNumber"}
BuilderEnvironments(command) ==
    {e \in Environments(command) : e.version = <<7, 114, 0>> /\ e.fault \in BuilderFaults}

(* ------------- the properties of the artifacts of a build ------------- *)

maxRetries == 3
\* time.Second, in seconds
retryDelayBase == 1

\* buildinfo.Artifact
Artifact(name, artifactPath, repo) ==
    [Name |-> name, Path |-> artifactPath, OriginalDeploymentRepo |-> repo]

constructArtifactPathWithFallback(artifact) ==
    IF artifact.OriginalDeploymentRepo # "" /\ artifact.Path # ""
    THEN <<artifact.OriginalDeploymentRepo, "/", artifact.Path>>
    ELSE IF artifact.OriginalDeploymentRepo # "" /\ artifact.Name # ""
    THEN <<artifact.OriginalDeploymentRepo, "/", artifact.Name>>
    ELSE IF artifact.Path # "" THEN <<artifact.Path>>
    ELSE IF artifact.Name # "" THEN <<artifact.Name>>
    ELSE << >>

\* the loop over the artifacts of one module, from the paths and the count so far
RECURSIVE extractFromArtifacts(_, _)
extractFromArtifacts(artifacts, sofar) ==
    IF artifacts = << >> THEN sofar
    ELSE extractFromArtifacts(
             Tail(artifacts),
             IF constructArtifactPathWithFallback(Head(artifacts)) = << >>
             THEN [sofar EXCEPT !.skippedCount = @ + 1]
             ELSE [sofar EXCEPT !.paths =
                       Append(@, constructArtifactPathWithFallback(Head(artifacts)))])

\* the loop over the modules
RECURSIVE extractFromModules(_, _)
extractFromModules(modules, sofar) ==
    IF modules = << >> THEN sofar
    ELSE extractFromModules(Tail(modules),
                            extractFromArtifacts(Head(modules).Artifacts, sofar))

\* the paths, each the pieces of its text, and the count of skipped artifacts
extractArtifactPathsWithWarnings(info) ==
    extractFromModules(info.Modules, [paths |-> << >>, skippedCount |-> 0])

\* what SetProps answers: no error, or an error of a 404, a 403 or a 500 response
is404Error(response) == response = "404"
is403Error(response) == response = "403"

\* a variant that retries a 403 response as any other error
retriesAfter_403AsOthers(response, attempt) ==
    response # "ok" /\ ~is404Error(response)

\* setPropsOnArtifacts goes on after the answer of attempt number attempt
retriesAfter(response, attempt) ==
    /\ response # "ok"
    /\ ~is404Error(response)
    /\ ~(is403Error(response) /\ attempt >= 1)

\* The state of a build publish: where BuildPublishCommand.Run is, the
\* attempt counter of setPropsOnArtifacts, the answers SetProps gave, the
\* delays slept, what extractArtifactPathsWithWarnings returned, whether the
\* steps of Run after the properties have run, and the error Run returned.
PublishStart ==
    [ pc |-> "Run", attempt |-> 0, responses |-> << >>, delays |-> << >>,
      paths |-> << >>, skippedCount |-> 0, remaining |-> FALSE, err |-> NoErr ]

publishErrMsg == "failed to publish the build info"
remainingErrMsg == "a step after the properties failed"

\* the delay of the attempt, when it is not the first
sleepBeforeAttempt(p) ==
    IF p.attempt > 0
    THEN [p EXCEPT !.delays = Append(@, retryDelayBase * 2 ^ (p.attempt - 1))]
    ELSE p

\* the end of an iteration that goes on: the counter, and the end of the loop
nextAttempt(p) ==
    [p EXCEPT !.attempt = @ + 1,
              !.pc = IF p.attempt + 1 < maxRetries THEN "setPropsOnArtifacts"
                     ELSE "afterProps"]

\* one iteration of the loop of setPropsOnArtifacts: the delay, the reader,
\* SetProps and what follows its answer
setPropsAttempt(p, readerFails, response) ==
    IF readerFails THEN [sleepBeforeAttempt(p) EXCEPT !.pc = "afterProps"]
    ELSE IF retriesAfter(response, p.attempt)
    THEN nextAttempt([sleepBeforeAttempt(p) EXCEPT !.responses = Append(@, response)])
    ELSE [sleepBeforeAttempt(p) EXCEPT !.responses = Append(@, response),
                                       !.pc = "afterProps"]

\* setCIVcsPropsOnArtifacts up to the call of setPropsOnArtifacts: nothing is
\* set outside a CI environment, with no properties or with no path
setCIVcsPropsOnArtifacts(p, info, ci) ==
    IF ci # "ci" THEN [p EXCEPT !.pc = "afterProps"]
    ELSE [p EXCEPT !.paths = extractArtifactPathsWithWarnings(info).paths,
                   !.skippedCount = extractArtifactPathsWithWarnings(info).skippedCount,
                   !.pc = IF extractArtifactPathsWithWarnings(info).paths = << >>
                          THEN "afterProps" ELSE "setPropsOnArtifacts"]

\* BuildPublishCommand.Run up to the properties: the publication fails, or is
\* a dry run, or the properties are set
publishBuildInfo(p, info, published, ci) ==
    IF published = "publishErr" THEN [p EXCEPT !.pc = "returned", !.err = <<publishErrMsg>>]
    ELSE IF published = "dryRun" THEN [p EXCEPT !.pc = "returned"]
    ELSE setCIVcsPropsOnArtifacts(p, info, ci)

\* the artifacts of the generated build infos: with a repository and a path,
\* with a path and no repository, with a repository and a name only, with
\* nothing
Artifacts4 ==
    { Artifact("file1.jar", "com/example/file1.jar", "libs-release"),
      Artifact("file2.jar", "com/example/file2.jar", ""),
      Artifact("file3.jar", "", "libs-release"),
      Artifact("", "", "") }

\* the generated modules, and the build infos of no, one and two modules
Modules4 == {[Artifacts |-> artifacts] : artifacts \in SeqsUpTo(Artifacts4, MaxArtifacts)}
BuildInfos ==
    {[Modules |-> << >>]}
    \cup {[Modules |-> <<module>>] : module \in Modules4}
    \cup {[Modules |-> <<first, second>>] : first \in Modules4, second \in Modules4}

\* the FileGroups of the spec files of several source types
MultiFileGroups ==
    { [EmptyTextFile EXCEPT !.Bundle = <<"rb1", "/", "1.0">>, !.Project = "proj-a"],
      [EmptyTextFile EXCEPT !.Bundle = <<"rb2", "/", "2.0">>],
      [EmptyTextFile EXCEPT !.Build = <<"b1", "/", "5">>],
      [EmptyTextFile EXCEPT !.Build = <<"b2">>, !.Project = "proj-a"],
      [EmptyTextFile EXCEPT !.Pattern = "repo/path/file"],
      [EmptyTextFile EXCEPT !.Package = "pkg", !.Version = "1.0.0", !.Type = "npm",
                        !.RepoKey = "repo"],
      [EmptyTextFile EXCEPT !.Aql = "abc"] }

\* the commands with such a spec file, with or without legacy spec paths
MultiCommands ==
    { [NoCommand EXCEPT !.spec = SpecOf(files), !.buildsSpecPath = builds,
                        !.releaseBundlesSpecPath = bundles] :
      files \in SeqsUpTo(MultiFileGroups, MaxMultiFiles),
      builds \in {"", "builds.json"}, bundles \in {"", "bundles.json"} }

MultiEnvironments(command) ==
    { e \in Environments(command) :
        e.version = <<7, 114, 0>> /\ e.fault \in {"none", "searchEmpty", "searchErr"} }

\* the sources handed to the functions that write repository keys: builds,
\* bundles of a project, a bundle of no project that has a repository key
\* beside a bundle of the default project, and a source tagged as builds that
\* holds a bundle of a project
RepoKeySources ==
    { BuildsSource(<<BuildSource("b1", "5", "", FALSE)>>),
      ReleaseBundlesSource(<<ReleaseBundleSource("rb1", "1.0", "proj")>>),
      ReleaseBundlesSource(
          <<[ReleaseBundleSource("rb2", "2.0", "") EXCEPT !.RepositoryKey = "existing-repo"],
            ReleaseBundleSource("rb3", "3.0", "default")>>),
      [BuildsSource(<<BuildSource("b2", "7", "", FALSE)>>)
          EXCEPT !.ReleaseBundles = <<ReleaseBundleSource("rb4", "4.0", "proj4")>>] }

\* the build infos that are published
PublishedBuildInfos ==
    { [Modules |-> << >>],
      [Modules |-> <<[Artifacts |-> <<Artifact("", "", "")>>]>>],
      [Modules |-> <<[Artifacts |-> <<Artifact("file1.jar", "com/example/file1.jar",
                                              "libs-release")>>]>>],
      [Modules |-> <<[Artifacts |-> <<Artifact("file1.jar", "com/example/file1.jar",
                                              "libs-release")>>],
                     [Artifacts |-> <<Artifact("file2.jar", "com/example/file2.jar", ""),
                                      Artifact("", "", "")>>]>>] }

\* what the publication, the CI environment and SetProps answer
PublishAnswers == {"ok", "publishErr", "dryRun"}
CiAnswers == {"ci", "disabled", "notCi", "noProps"}
SetPropsAnswers == {"ok", "404", "403", "500"}

(* ------------------------------- state -------------------------------- *)

VARIABLES
    file,          \* the FileGroup handed to validateFile
    multi,         \* the multi-source-and-packages capability flag
    vfDone,        \* validateFile has returned
    vfResult,      \* what validateFile returned: [sourceType, err]
    detected,      \* the detected source types handed to validateCreationSources
    vcsDone,       \* validateCreationSources has returned
    vcsErr,        \* the error validateCreationSources returned
    rbc,           \* the source-selecting fields of the command that runs
    env,           \* the environment of the run
    ctx,           \* the context of the command-line invocation
    ran,           \* the operation that has run, "" before
    outcome,       \* what the run returned and sent: [err, requests]
    built,         \* what a source builder returned: [val, err]
    calls,         \* the calls the operation made to its collaborators, in order
    buildInfo,     \* the build info that is published
    pub,           \* the state of the build publish
    sourceList     \* the list of sources handed to a function of sources

vars == <<file, multi, vfDone, vfResult, detected, vcsDone, vcsErr,
          rbc, env, ctx, ran, outcome, built, calls, buildInfo, pub, sourceList>>

publishVars == <<buildInfo, pub>>

vfVars == <<file, vfDone, vfResult>>
vcsVars == <<detected, vcsDone, vcsErr>>
runVars == <<rbc, env, ctx, ran, outcome, built>>

\* the parts of the state a specification does not use
IdlePublish ==
    /\ buildInfo = [Modules |-> << >>]
    /\ pub = PublishStart

IdleSources == sourceList = << >>

IdleValidateFile ==
    /\ file = EmptyFile
    /\ vfDone = FALSE
    /\ vfResult = [sourceType |-> NoSourceType, err |-> NoErr]

IdleValidateCreationSources ==
    /\ detected = << >>
    /\ vcsDone = FALSE
    /\ vcsErr = NoErr

IdleRun ==
    /\ rbc = NoCommand
    /\ ctx = NoContext
    /\ env = NoEnvironment
    /\ ran = ""
    /\ outcome = NotSent(NoErr)
    /\ built = Built(<< >>)
    /\ calls = << >>

(* ---------------------- validateFile on one FileGroup ----------------- *)

InitValidateFile ==
    /\ \E s \in SourceFieldSets, o \in OtherFieldSets : file = s @@ o
    /\ multi \in BOOLEAN
    /\ vfDone = FALSE
    /\ vfResult = [sourceType |-> NoSourceType, err |-> NoErr]
    /\ IdleValidateCreationSources
    /\ IdleRun
    /\ IdlePublish
    /\ IdleSources

ValidateFile ==
    /\ ~vfDone
    /\ vfResult' = validateFile(file, multi)
    /\ vfDone' = TRUE
    /\ UNCHANGED <<file, multi, vcsVars, runVars, calls, publishVars, sourceList>>

NextValidateFile == ValidateFile

SpecValidateFile == InitValidateFile /\ [][NextValidateFile]_vars

(* ------------- validateCreationSources on one detected list ----------- *)

InitValidateCreationSources ==
    /\ detected \in SourceTypeLists(MaxDetected)
    /\ multi \in BOOLEAN
    /\ vcsDone = FALSE
    /\ vcsErr = NoErr
    /\ IdleValidateFile
    /\ IdleRun
    /\ IdlePublish
    /\ IdleSources

ValidateCreationSources ==
    /\ ~vcsDone
    /\ vcsErr' = validateCreationSources(detected, multi)
    /\ vcsDone' = TRUE
    /\ UNCHANGED <<detected, multi, vfVars, runVars, calls, publishVars, sourceList>>

NextValidateCreationSources == ValidateCreationSources

SpecValidateCreationSources ==
    InitValidateCreationSources /\ [][NextValidateCreationSources]_vars

(* ------------------ one run of the create or update command ------------ *)

InitRun ==
    /\ rbc \in Commands
    /\ ctx = NoContext
    /\ env \in RunEnvironments(rbc)
    /\ ran = ""
    /\ outcome = NotSent(NoErr)
    /\ built = Built(<< >>)
    /\ calls = << >>
    /\ multi = FALSE
    /\ IdleValidateFile
    /\ IdleValidateCreationSources
    /\ IdlePublish
    /\ IdleSources

\* ReleaseBundleCreateCommand.Run
RunCreate ==
    /\ ran = ""
    /\ ran' = "create"
    /\ outcome' = ReleaseBundleCreateCommand_Run(rbc, env)
    /\ UNCHANGED <<rbc, env, ctx, built, multi, vfVars, vcsVars, calls, publishVars, sourceList>>

\* ReleaseBundleUpdateCommand.Run, of a command with the same spec, flags
\* and project
RunUpdate ==
    /\ ran = ""
    /\ ran' = "update"
    /\ outcome' = ReleaseBundleUpdateCommand_Run(rbc, env)
    /\ UNCHANGED <<rbc, env, ctx, built, multi, vfVars, vcsVars, calls, publishVars, sourceList>>

NextRun == RunCreate \/ RunUpdate

SpecRun == InitRun /\ [][NextRun]_vars

(* --------------- one invocation of jf rbc or jf rbu --------------------- *)

InitCli ==
    /\ ctx \in Contexts
    /\ env \in CliEnvironments
    /\ rbc = NoCommand
    /\ ran = ""
    /\ outcome = NotSent(NoErr)
    /\ built = Built(<< >>)
    /\ calls = << >>
    /\ multi = FALSE
    /\ IdleValidateFile
    /\ IdleValidateCreationSources
    /\ IdlePublish
    /\ IdleSources

\* the action of jf rbc
CliCreate ==
    /\ ran = ""
    /\ ran' = "create"
    /\ outcome' = create(ctx, env)
    /\ UNCHANGED <<rbc, env, ctx, built, multi, vfVars, vcsVars, calls, publishVars, sourceList>>

\* the action of jf rbu
CliUpdate ==
    /\ ran = ""
    /\ ran' = "update"
    /\ outcome' = update(ctx, env)
    /\ UNCHANGED <<rbc, env, ctx, built, multi, vfVars, vcsVars, calls, publishVars, sourceList>>

\* validateUpdateReleaseBundleContext alone
ValidateUpdateReleaseBundleContext ==
    /\ ran = ""
    /\ ran' = "validateUpdateReleaseBundleContext"
    /\ outcome' = NotSent(validateUpdateReleaseBundleContext(ctx))
    /\ UNCHANGED <<rbc, env, ctx, built, multi, vfVars, vcsVars, calls, publishVars, sourceList>>

NextCli == CliCreate \/ CliUpdate \/ ValidateUpdateReleaseBundleContext

SpecCli == InitCli /\ [][NextCli]_vars

(* --------------------------- the creation spec ------------------------- *)

InitCreationSpec ==
    /\ ctx \in CreationSpecContexts
    /\ env \in CreationSpecEnvironments
    /\ rbc = NoCommand
    /\ ran = ""
    /\ outcome = NotSent(NoErr)
    /\ built = Built(<< >>)
    /\ calls = << >>
    /\ multi = FALSE
    /\ IdleValidateFile
    /\ IdleValidateCreationSources
    /\ IdlePublish
    /\ IdleSources

\* getReleaseBundleCreationSpec alone
GetReleaseBundleCreationSpec ==
    /\ ran = ""
    /\ ran' = "getReleaseBundleCreationSpec"
    /\ built' = getReleaseBundleCreationSpec(ctx, env)
    /\ UNCHANGED <<rbc, env, ctx, outcome, multi, vfVars, vcsVars, calls, publishVars, sourceList>>

NextCreationSpec == GetReleaseBundleCreationSpec

SpecCreationSpec == InitCreationSpec /\ [][NextCreationSpec]_vars

(* ------------------------ the artifacts builder ------------------------ *)

InitArtifacts ==
    /\ rbc \in ArtifactsCommands
    /\ env \in ArtifactsEnvironments
    /\ ctx = NoContext
    /\ ran = ""
    /\ outcome = NotSent(NoErr)
    /\ built = Built(<< >>)
    /\ calls = << >>
    /\ multi = FALSE
    /\ IdleValidateFile
    /\ IdleValidateCreationSources
    /\ IdlePublish
    /\ IdleSources

\* createArtifactSourceFromSpec of ReleaseBundleCreateCommand
CreateArtifactSourceFromSpec ==
    /\ ran = ""
    /\ ran' = "create.createArtifactSourceFromSpec"
    /\ built' = createArtifactSourceFromSpec(rbc, env)
    /\ calls' = createArtifactSourceFromSpecCalls(rbc, env)
    /\ UNCHANGED <<rbc, env, ctx, outcome, multi, vfVars, vcsVars, publishVars, sourceList>>

\* createArtifactSourceFromSpec of ReleaseBundleUpdateCommand
UpdateArtifactSourceFromSpec ==
    /\ ran = ""
    /\ ran' = "update.createArtifactSourceFromSpec"
    /\ built' = createArtifactSourceFromSpec(rbc, env)
    /\ calls' = createArtifactSourceFromSpecCalls(rbc, env)
    /\ UNCHANGED <<rbc, env, ctx, outcome, multi, vfVars, vcsVars, publishVars, sourceList>>

NextArtifacts == CreateArtifactSourceFromSpec \/ UpdateArtifactSourceFromSpec

SpecArtifacts == InitArtifacts /\ [][NextArtifacts]_vars

(* -------------------------- the build publish -------------------------- *)

InitPublish ==
    /\ buildInfo \in PublishedBuildInfos
    /\ pub = PublishStart
    /\ multi = FALSE
    /\ calls = << >>
    /\ IdleValidateFile
    /\ IdleValidateCreationSources
    /\ IdleRun
    /\ IdleSources

\* BuildPublishCommand.Run up to the call of setPropsOnArtifacts
PublishBuildInfo ==
    /\ pub.pc = "Run"
    /\ \E published \in PublishAnswers, ci \in CiAnswers :
           pub' = publishBuildInfo(pub, buildInfo, published, ci)
    /\ UNCHANGED <<buildInfo, multi, vfVars, vcsVars, runVars, calls, sourceList>>

\* one iteration of the loop of setPropsOnArtifacts
SetPropsAttempt ==
    /\ pub.pc = "setPropsOnArtifacts"
    /\ pub.attempt < maxRetries
    /\ \E readerFails \in BOOLEAN, response \in SetPropsAnswers :
           pub' = setPropsAttempt(pub, readerFails, response)
    /\ UNCHANGED <<buildInfo, multi, vfVars, vcsVars, runVars, calls, sourceList>>

\* the steps of BuildPublishCommand.Run after setCIVcsPropsOnArtifacts
RunRemainingSteps ==
    /\ pub.pc = "afterProps"
    /\ \E failed \in BOOLEAN :
           pub' = [pub EXCEPT !.pc = "returned", !.remaining = TRUE,
                              !.err = IF failed THEN <<remainingErrMsg>> ELSE NoErr]
    /\ UNCHANGED <<buildInfo, multi, vfVars, vcsVars, runVars, calls, sourceList>>

NextPublish == PublishBuildInfo \/ SetPropsAttempt \/ RunRemainingSteps

SpecPublish == InitPublish /\ [][NextPublish]_vars

\* The build publish runs in one goroutine; time.Sleep, SetProps and the other
\* collaborators return, so a step that can be taken is taken.
SpecPublishFair == SpecPublish /\ WF_vars(NextPublish)

(* ----------------- extractArtifactPathsWithWarnings alone -------------- *)

InitExtract ==
    /\ buildInfo \in BuildInfos
    /\ pub = PublishStart
    /\ multi = FALSE
    /\ calls = << >>
    /\ IdleValidateFile
    /\ IdleValidateCreationSources
    /\ IdleRun
    /\ IdleSources

ExtractArtifactPathsWithWarnings ==
    /\ pub.pc = "Run"
    /\ pub' = [pub EXCEPT !.pc = "extracted",
                          !.paths = extractArtifactPathsWithWarnings(buildInfo).paths,
                          !.skippedCount =
                              extractArtifactPathsWithWarnings(buildInfo).skippedCount]
    /\ UNCHANGED <<buildInfo, multi, vfVars, vcsVars, runVars, calls, sourceList>>

NextExtract == ExtractArtifactPathsWithWarnings

SpecExtract == InitExtract /\ [][NextExtract]_vars

(* --------------- the sources of a spec of several types ---------------- *)

InitMultiSources ==
    /\ rbc \in MultiCommands
    /\ env \in MultiEnvironments(rbc)
    /\ ctx = NoContext
    /\ ran = ""
    /\ outcome = NotSent(NoErr)
    /\ built = Built(<< >>)
    /\ calls = << >>
    /\ multi = FALSE
    /\ IdleValidateFile
    /\ IdleValidateCreationSources
    /\ IdlePublish
    /\ IdleSources

\* getMultipleSourcesIfDefined of create, on a command with no source flag
GetMultipleSourcesIfDefined ==
    /\ ran = ""
    /\ ran' = "getMultipleSourcesIfDefined"
    /\ built' = getMultipleSourcesIfDefined(rbc, env)
    /\ UNCHANGED <<rbc, env, ctx, outcome, multi, vfVars, vcsVars, calls, publishVars,
                   sourceList>>

\* buildSourcesFromSpec of update
BuildSourcesFromSpec ==
    /\ ran = ""
    /\ ran' = "buildSourcesFromSpec"
    /\ built' = buildSourcesFromSpec(rbc, env)
    /\ UNCHANGED <<rbc, env, ctx, outcome, multi, vfVars, vcsVars, calls, publishVars,
                   sourceList>>

NextMultiSources == GetMultipleSourcesIfDefined \/ BuildSourcesFromSpec

SpecMultiSources == InitMultiSources /\ [][NextMultiSources]_vars

(* ------------------ the sources of the source flags ------------------- *)

\* a pair of an entry of a source flag: its key and its value as texts, and
\* whether it is written with its '='
FlagPair(key, value) == [key |-> key, value |-> value, eq |-> TRUE]
BarePair(key) == [key |-> key, value |-> << >>, eq |-> FALSE]

\* the entries a source flag is made of: complete ones, one with a pair
\* without '=', one with nothing but such a pair, an empty one, one with
\* blanks around its keys and values, one that gives a key twice, one whose
\* value holds an '='
FlagEntries ==
    { <<FlagPair(<<"name">>, <<"b1">>), FlagPair(<<"id">>, <<"5">>)>>,
      <<FlagPair(<<"id">>, <<"7">>), FlagPair(<<"name">>, <<"b2">>),
        FlagPair(<<"include-deps">>, <<"true">>)>>,
      <<FlagPair(<<"name">>, <<"b1">>), BarePair(<<"latest">>),
        FlagPair(<<"id">>, <<"5">>)>>,
      <<BarePair(<<"name">>)>>,
      << >>,
      <<FlagPair(<<" ", "name", " ">>, <<" ", "b3", " ">>),
        FlagPair(<<"version">>, <<"1.0">>)>>,
      <<FlagPair(<<"name">>, <<"rb1">>), FlagPair(<<"name">>, <<"rb2">>),
        FlagPair(<<"version">>, <<"2", "=", "0">>)>> }

\* the lists of entries of a source flag
FlagEntryLists == SeqsUpTo(FlagEntries, MaxFlagEntries) \ {<< >>}

\* the text of a pair, of an entry and of a list of entries
PairText(pair) == IF pair.eq THEN pair.key \o <<"=">> \o pair.value ELSE pair.key
RECURSIVE JoinTexts(_, _)
JoinTexts(texts, sep) ==
    IF texts = << >> THEN << >>
    ELSE IF Len(texts) = 1 THEN texts[1]
    ELSE texts[1] \o <<sep>> \o JoinTexts(Tail(texts), sep)
EntryText(pairs) == JoinTexts(MapSeq(pairs, PairText), ",")
FlagText(entries) == JoinTexts(MapSeq(entries, EntryText), ";")

\* the text of scenario C
ScenarioCText == <<"name", "=", "b1", ",", "id", "=", "5">>

\* the commands whose sources are those of the source flags: one flag is any
\* text of entries, the other is unset or a text of one entry
FlagValues ==
    {[builds |-> FlagText(entries), bundles |-> other] :
        entries \in FlagEntryLists, other \in {<< >>, ScenarioCText}}
    \cup {[builds |-> other, bundles |-> FlagText(entries)] :
        entries \in FlagEntryLists, other \in {<< >>, ScenarioCText}}
FlagCommands ==
    {[NoCommand EXCEPT !.sourcesBuilds = v.builds, !.sourcesReleaseBundles = v.bundles,
                       !.rbProjectKey = project] :
        v \in FlagValues, project \in {"", "proj"}}

FlagEnvironments ==
    [ version : {minArtifactoryVersionForMultiSourceAndPackagesSupport},
      fault : {"none", "backend"},
      buildsSpec : {<< >>}, releaseBundlesSpec : {<< >>}, osEnv : {NoBuildEnvVars} ]

InitFlagSources ==
    /\ rbc \in FlagCommands
    /\ env \in FlagEnvironments
    /\ ctx = NoContext
    /\ ran = ""
    /\ outcome = NotSent(NoErr)
    /\ built = Built(<< >>)
    /\ calls = << >>
    /\ multi = FALSE
    /\ IdleValidateFile
    /\ IdleValidateCreationSources
    /\ IdlePublish
    /\ IdleSources

\* buildReleaseBundleSourcesParams, called alone
BuildReleaseBundleSourcesParams ==
    /\ ran = ""
    /\ ran' = "buildReleaseBundleSourcesParams"
    /\ sourceList' = buildReleaseBundleSourcesParams(rbc)
    /\ UNCHANGED <<rbc, env, ctx, outcome, built, multi, vfVars, vcsVars, calls,
                   publishVars>>

\* ReleaseBundleUpdateCommand.buildSourcesFromCommandFlags, called alone
BuildSourcesFromCommandFlags ==
    /\ ran = ""
    /\ ran' = "buildSourcesFromCommandFlags"
    /\ sourceList' = buildSourcesFromCommandFlags(rbc)
    /\ UNCHANGED <<rbc, env, ctx, outcome, built, multi, vfVars, vcsVars, calls,
                   publishVars>>

NextFlagSources ==
    BuildReleaseBundleSourcesParams \/ BuildSourcesFromCommandFlags \/ RunUpdate

SpecFlagSources == InitFlagSources /\ [][NextFlagSources]_vars

(* ------------------------- the repository keys ------------------------- *)

InitRepoKey ==
    /\ sourceList \in SeqsUpTo(RepoKeySources, MaxSources)
    /\ multi = FALSE
    /\ IdleValidateFile
    /\ IdleValidateCreationSources
    /\ IdleRun
    /\ IdlePublish

\* updateReleaseBundleRepoKeyWithProject on the list of sources
UpdateReleaseBundleRepoKeyWithProject ==
    /\ ran = ""
    /\ ran' = "updateReleaseBundleRepoKeyWithProject"
    /\ built' = Built(updateReleaseBundleRepoKeyWithProject(sourceList))
    /\ UNCHANGED <<rbc, env, ctx, outcome, multi, vfVars, vcsVars, calls, publishVars,
                   sourceList>>

\* convertProjectKeyToRepositoryKey on the release bundles of the first source
ConvertProjectKeyToRepositoryKey ==
    /\ ran = ""
    /\ sourceList # << >>
    /\ ran' = "convertProjectKeyToRepositoryKey"
    /\ built' = Built(convertProjectKeyToRepositoryKey(sourceList[1].ReleaseBundles))
    /\ UNCHANGED <<rbc, env, ctx, outcome, multi, vfVars, vcsVars, calls, publishVars,
                   sourceList>>

NextRepoKey == UpdateReleaseBundleRepoKeyWithProject \/ ConvertProjectKeyToRepositoryKey

SpecRepoKey == InitRepoKey /\ [][NextRepoKey]_vars

(* ------------------------- one source builder -------------------------- *)

InitBuilders ==
    /\ rbc \in BuilderCommands
    /\ env \in BuilderEnvironments(rbc)
    /\ ctx = NoContext
    /\ ran = ""
    /\ outcome = NotSent(NoErr)
    /\ built = Built(<< >>)
    /\ calls = << >>
    /\ multi = FALSE
    /\ IdleValidateFile
    /\ IdleValidateCreationSources
    /\ IdlePublish
    /\ IdleSources

\* convertSpecToReleaseBundlesSource on the FileGroups of the spec file
ConvertSpecToReleaseBundlesSource ==
    /\ ran = ""
    /\ ran' = "convertSpecToReleaseBundlesSource"
    /\ built' = convertSpecToReleaseBundlesSource(rbc.spec.Files)
    /\ UNCHANGED <<rbc, env, ctx, outcome, multi, vfVars, vcsVars, calls, publishVars, sourceList>>

\* createBuildSourceFromSpec: the legacy builds-spec file or the FileGroups
CreateBuildSourceFromSpec ==
    /\ ran = ""
    /\ ran' = "createBuildSourceFromSpec"
    /\ built' = createBuildSourceFromSpec(rbc, env)
    /\ UNCHANGED <<rbc, env, ctx, outcome, multi, vfVars, vcsVars, calls, publishVars, sourceList>>

NextBuilders == ConvertSpecToReleaseBundlesSource \/ CreateBuildSourceFromSpec

SpecBuilders == InitBuilders /\ [][NextBuilders]_vars

(* ===================== properties of validateFile ===================== *)

\* the kinds in the order of the spec's field groups, each with its
\* discriminating field
KindOrder == <<Aql, Builds, ReleaseBundles, Artifacts, Packages>>
KindField == <<"Aql", "Build", "Bundle", "Pattern", "Package">>

\* the positions in KindOrder of the kinds a FileGroup populates
PopulatedKinds(f) == {k \in 1..5 : f[KindField[k]] # ""}
LegacyKinds(f) == PopulatedKinds(f) \ {5}

\* the first populated kind of a FileGroup that populates one
FirstKind(f) ==
    KindOrder[CHOOSE k \in PopulatedKinds(f) : \A j \in PopulatedKinds(f) : k <= j]

\* a FileGroup sets one of the always-unsupported fields (a flag is set when true)
SetsAlwaysUnsupported(f) ==
    \/ f.PathMappingInput # "" \/ f.PathMappingOutput # "" \/ f.Target # ""
    \/ f.SortOrder # "" \/ f.SortBy # "" \/ f.ExcludeArtifacts = "true"
    \/ f.PublicGpgKey # "" \/ f.Offset > 0 \/ f.Limit > 0 \/ f.Archive # ""
    \/ f.Symlinks = "true" \/ f.Regexp = "true" \/ f.Ant = "true"
    \/ f.Explode = "true" \/ f.BypassArchiveInspection = "true"
    \/ f.Transitive = "true"

\* the recursive field is absent or a boolean
RecursiveParses(f) == f.Recursive \in {"", "true", "false"}

\* the option fields a FileGroup sets: includeDeps when true, recursive when
\* false (its non-default value), exclusions when the first one is not empty
OptionsSet(f) ==
    {o \in {"includeDeps", "project", "exclusions", "props", "excludeProps", "recursive"} :
        \/ o = "includeDeps" /\ f.IncludeDeps = "true"
        \/ o = "project" /\ f.Project # ""
        \/ o = "exclusions" /\ f.Exclusions # << >> /\ Head(f.Exclusions) # ""
        \/ o = "props" /\ f.Props # ""
        \/ o = "excludeProps" /\ f.ExcludeProps # ""
        \/ o = "recursive" /\ f.Recursive \notin {"", "true"} }

\* the option fields each kind allows
AllowedOptions(kind) ==
    CASE kind = Aql -> {}
      [] kind = Builds -> {"includeDeps", "project"}
      [] kind = ReleaseBundles -> {"project"}
      [] kind = Artifacts -> {"exclusions", "props", "excludeProps", "recursive"}
      [] kind = Packages -> {}

\* the fields of other kinds a FileGroup populates beside those of kind:
\* other discriminating fields and the package-only fields
ForeignFields(f, kind) ==
    {n \in {"Aql", "Build", "Bundle", "Pattern", "Package"} :
        f[n] # "" /\ \E k \in 1..5 : KindField[k] = n /\ KindOrder[k] # kind}
    \cup (IF kind = Packages THEN {}
          ELSE {n \in {"Version", "Type", "RepoKey"} : f[n] # ""})

\* C1 as stated: single-source mode, no always-unsupported field and no
\* field outside the matched kind's allowed set: more than one of {aql, build,
\* bundle, pattern} is an error, exactly one is that kind with no error.
C1_AsStated ==
    (/\ vfDone /\ ~multi
     /\ ~SetsAlwaysUnsupported(file)
     /\ LegacyKinds(file) # {}
     /\ OptionsSet(file) \subseteq AllowedOptions(FirstKind(file))
     /\ ForeignFields(file, FirstKind(file)) \subseteq {"Aql", "Build", "Bundle", "Pattern"})
    => /\ Cardinality(LegacyKinds(file)) > 1 => vfResult.err # NoErr
       /\ Cardinality(LegacyKinds(file)) = 1 =>
              vfResult = [sourceType |-> FirstKind(file), err |-> NoErr]

\* C1 (amended): in single-source mode, for a FileGroup with no
\* always-unsupported field and a recursive value that is absent or a boolean,
\* validateFile returns the exactly-one-creation-source error if more than one
\* of {aql, build, bundle, pattern} is populated and, if exactly one is and no
\* option outside that kind's allowed set is set, the matching SourceType with
\* no error.
C1_Exclusivity ==
    (/\ vfDone /\ ~multi
     /\ ~SetsAlwaysUnsupported(file)
     /\ RecursiveParses(file))
    => /\ Cardinality(LegacyKinds(file)) > 1 =>
              vfResult = [sourceType |-> NoSourceType, err |-> <<exactlyOneSourceErrMsg>>]
       /\ (/\ Cardinality(LegacyKinds(file)) = 1
           /\ OptionsSet(file) \subseteq AllowedOptions(FirstKind(file))) =>
              vfResult = [sourceType |-> FirstKind(file), err |-> NoErr]

C1_Witness ==
    /\ vfDone /\ ~multi
    /\ file.Aql # "" /\ file.Build # "" /\ file.Recursive = "true"
    /\ vfResult.err = <<exactlyOneSourceErrMsg>>

\* C2: in both modes, a FileGroup that sets any always-unsupported field is
\* rejected and no SourceType is returned for it.
C2_UnsupportedRejected ==
    (vfDone /\ SetsAlwaysUnsupported(file))
    => vfResult.err # NoErr /\ vfResult.sourceType = NoSourceType

C2_Witness ==
    /\ vfDone /\ multi
    /\ file.Transitive = "true" /\ file.Pattern # ""
    /\ vfResult.err = <<unsupportedFieldsErrMsg>>

C4_AsStated ==
    (/\ vfDone /\ vfResult.sourceType \in SourceTypes
     /\ \/ ~(OptionsSet(file) \subseteq AllowedOptions(vfResult.sourceType))
        \/ ForeignFields(file, vfResult.sourceType) # {})
    => vfResult.err # NoErr

\* C4 (amended): in both modes, validateFile returns an error for a FileGroup it
\* matches to kind K exactly when the FileGroup sets an option field (includeDeps
\* true, project, a non-empty first exclusion, props, excludeProps, recursive
\* false) outside K's allowed set; the discriminating fields of other kinds and
\* the package-only fields version, type, repoKey are not checked.
C4_AllowedFields ==
    (vfDone /\ vfResult.sourceType \in SourceTypes)
    => (vfResult.err # NoErr
            <=> ~(OptionsSet(file) \subseteq AllowedOptions(vfResult.sourceType)))

C4_Witness ==
    /\ vfDone
    /\ vfResult.sourceType = ReleaseBundles
    /\ file.IncludeDeps = "true"
    /\ vfResult.err = <<bundlesFieldsErrMsg>>

\* C5: in multi-source mode a FileGroup that populates more than one of {aql,
\* build, bundle, pattern, package} and has no other offending field is accepted
\* as the first populated kind in the order aql, build, bundle, pattern, package.
C5_FirstMatchWins ==
    (/\ vfDone /\ multi
     /\ Cardinality(PopulatedKinds(file)) > 1
     /\ ~SetsAlwaysUnsupported(file) /\ RecursiveParses(file)
     /\ OptionsSet(file) \subseteq AllowedOptions(FirstKind(file)))
    => vfResult = [sourceType |-> FirstKind(file), err |-> NoErr]

C5_Witness ==
    /\ vfDone /\ multi
    /\ file.Bundle # "" /\ file.Pattern # "" /\ file.Package # ""
    /\ vfResult = [sourceType |-> ReleaseBundles, err |-> NoErr]

(* ================ properties of validateCreationSources ================ *)

Entries(d) == {d[i] : i \in DOMAIN d}
Occurrences(d, t) == Cardinality({i \in DOMAIN d : d[i] = t})

\* every entry is of the first entry's type
Uniform(d) == \A i \in DOMAIN d : d[i] = d[1]

\* the type names of an error message, in the order they appear in it
NamesIn(err) == SelectSeq(err, LAMBDA piece : piece \in SourceTypes)

\* C6: in single-source mode validateCreationSources returns no error if and
\* only if the list is non-empty, all entries are the same type, that type is
\* not Packages and, when it is AQL, the list has exactly one entry.
C6_SingleSourceAccepts ==
    (vcsDone /\ ~multi)
    => (vcsErr = NoErr
            <=> /\ Len(detected) > 0
                /\ Uniform(detected)
                /\ detected[1] # Packages
                /\ detected[1] = Aql => Len(detected) = 1)

C6_Witness ==
    /\ vcsDone /\ ~multi
    /\ Len(detected) > 1 /\ detected[1] = Artifacts
    /\ vcsErr = NoErr

\* C7: in multi-source mode validateCreationSources returns no error for every
\* non-empty list with at most one AQL entry, whatever its mix of types and
\* duplicates, and the could-not-detect-any-creation-sources error for the
\* empty list.
C7_MultiSourceAccepts ==
    (vcsDone /\ multi)
    => /\ (Len(detected) > 0 /\ Occurrences(detected, Aql) <= 1) => vcsErr = NoErr
       /\ Len(detected) = 0 => vcsErr = <<missingCreationSourcesErrMsg>>

C7_Witness ==
    /\ vcsDone /\ multi
    /\ Occurrences(detected, Aql) = 1
    /\ Occurrences(detected, Packages) = 2
    /\ Builds \in Entries(detected)
    /\ vcsErr = NoErr

\* C8 as stated: in both modes, more than one AQL entry anywhere in the list
\* fails with the single-aql error.
C8_AsStated ==
    (vcsDone /\ Occurrences(detected, Aql) > 1)
    => vcsErr = <<singleAqlErrMsg>>

\* C8 (amended): a list with more than one AQL entry always fails; the error is
\* the single-aql error in multi-source mode and, in single-source mode, when
\* every entry is AQL; a single-source list that mixes AQL with another type
\* fails with the package or the multiple-creation-sources error instead.
C8_SingleAql ==
    (vcsDone /\ Occurrences(detected, Aql) > 1)
    => IF multi \/ Entries(detected) = {Aql}
       THEN vcsErr = <<singleAqlErrMsg>>
       ELSE vcsErr # NoErr
            /\ vcsErr[1] \in {unsupportedCreationSourceMethod, multipleCreationSourcesErrMsg}

C8_Witness ==
    /\ vcsDone /\ multi
    /\ Occurrences(detected, Aql) = 2 /\ Builds \in Entries(detected)
    /\ vcsErr = <<singleAqlErrMsg>>

\* C9 as stated: in single-source mode a Packages entry at any position fails
\* with the package-not-supported error, whatever else the list holds.
C9_AsStated ==
    (vcsDone /\ ~multi /\ Packages \in Entries(detected))
    => vcsErr = <<unsupportedCreationSourceMethod>>

\* the position of the first Packages entry of a list that has one
FirstPackages(d) ==
    CHOOSE i \in DOMAIN d : d[i] = Packages /\ \A j \in 1..(i - 1) : d[j] # Packages

\* C9 (amended): in single-source mode a list with a Packages entry always
\* fails; the error is the package-not-supported error when every entry before
\* the first Packages entry is of the first entry's type, and the
\* multiple-creation-sources error when an earlier entry differs from it.
C9_PackagesUnsupported ==
    (vcsDone /\ ~multi /\ Packages \in Entries(detected))
    => IF \A j \in 1..(FirstPackages(detected) - 1) : detected[j] = detected[1]
       THEN vcsErr = <<unsupportedCreationSourceMethod>>
       ELSE vcsErr[1] = multipleCreationSourcesErrMsg

C9_Witness ==
    /\ vcsDone /\ ~multi
    /\ Len(detected) = 3 /\ detected[1] = Builds /\ detected[2] = Builds
    /\ detected[3] = Packages
    /\ vcsErr = <<unsupportedCreationSourceMethod>>

\* C10 as stated: in single-source mode a Packages-free list with an entry that
\* differs from the first fails with the multiple-creation-sources error, whose
\* Detected text names each distinct detected type exactly once.
C10_AsStated ==
    (vcsDone /\ ~multi /\ Packages \notin Entries(detected) /\ ~Uniform(detected))
    => /\ vcsErr[1] = multipleCreationSourcesErrMsg
       /\ \A t \in Entries(detected) : Occurrences(NamesIn(vcsErr), t) = 1

\* C10 (amended): in single-source mode a Packages-free list with an entry that
\* differs from the first fails with the multiple-creation-sources error, whose
\* Detected text names the type of every entry of the list in list order,
\* repeated types included, joined by ", " and a final " and ".
C10_MultipleSourcesErr ==
    (vcsDone /\ ~multi /\ Packages \notin Entries(detected) /\ ~Uniform(detected))
    => /\ vcsErr[1] = multipleCreationSourcesErrMsg
       /\ NamesIn(vcsErr) = detected
       /\ Len(vcsErr) = 2 * Len(detected) + 2
       /\ \A i \in 1..(Len(detected) - 1) :
              vcsErr[2 * i + 2] = (IF i = Len(detected) - 1 THEN " and " ELSE ", ")

C10_Witness ==
    /\ vcsDone /\ ~multi
    /\ detected = <<Aql, Artifacts, Builds>>
    /\ vcsErr = <<multipleCreationSourcesErrMsg, " '", "aql", ", ", "artifacts",
                  " and ", "builds", "'">>

(* =================== properties of the create command ================== *)

\* the run got as far as identifying its sources
RunReachedIdentification ==
    /\ validateArtifactoryVersionSupported(env.fault = "baselineFetch", env.version) = NoErr
    /\ env.fault # "manager"

\* the multi-source probe of the run succeeded: the version was read and is
\* at least 7.114.0
RunMultiSupported ==
    /\ env.fault # "probeFetch"
    /\ AtLeast(env.version, minArtifactoryVersionForMultiSourceAndPackagesSupport)

\* what the identification of the run returned
RunIdentified == identifySourceTypeBySpecOrByLegacyCommands(rbc, RunMultiSupported)

\* the lifecycle call of each single-source create path
SingleSourceMethod ==
    [ t \in SourceTypes |->
        CASE t = Aql -> "CreateReleaseBundleFromAqlDraft"
          [] t = Artifacts -> "CreateReleaseBundleFromArtifactsDraft"
          [] t = Builds -> "CreateReleaseBundleFromBuildsDraft"
          [] t = ReleaseBundles -> "CreateReleaseBundleFromBundlesDraft"
          [] t = Packages -> "CreateReleaseBundleFromPackagesDraft" ]
MultipleSourcesMethod == "CreateReleaseBundlesFromMultipleSourcesDraft"

\* the methods of the calls the run made
MethodsSent == {outcome.requests[i].method : i \in DOMAIN outcome.requests}

\* C11: in Run of create, whenever the identification of the sources returns,
\* with no error, a non-empty list whose entries are all of one source type,
\* Run takes the single-source create path of that type: what it returns and
\* sends is what that path returns and sends, and no from-multiple-sources call
\* is made, with the multi-source capability present or absent.
C11_SingleTypeDispatch ==
    (/\ ran = "create" /\ RunReachedIdentification
     /\ RunIdentified.err = NoErr
     /\ RunIdentified.val # << >> /\ Uniform(RunIdentified.val))
    => /\ outcome = createFromSingleSource(rbc, env, RunIdentified.val[1])
       /\ MethodsSent \subseteq {SingleSourceMethod[RunIdentified.val[1]]}

\* two FileGroups of one type, the capability present and a multi-source flag
\* set: the single-source call of the type is made
C11_Witness ==
    /\ ran = "create" /\ RunReachedIdentification /\ RunMultiSupported
    /\ RunIdentified.err = NoErr
    /\ Len(RunIdentified.val) = 2 /\ Uniform(RunIdentified.val)
    /\ rbc.sourcesBuilds # << >>
    /\ MethodsSent = {SingleSourceMethod[RunIdentified.val[1]]}

\* the identified sources of the run are of a single distinct type
RunSingleType == RunIdentified.val # << >> /\ Uniform(RunIdentified.val)

\* C12: Run of create makes a from-multiple-sources call only when the
\* multi-source probe succeeded; when the capability is absent and the
\* identification returned, with no error, sources that are not of a single
\* distinct type, Run fails with 'release bundle creation failed, unable to
\* identify source for creation' and makes no call.
C12_MultiSourceGated ==
    ran = "create" =>
        /\ MultipleSourcesMethod \in MethodsSent => RunMultiSupported
        /\ (/\ RunReachedIdentification /\ ~RunMultiSupported
            /\ RunIdentified.err = NoErr /\ ~RunSingleType)
           => outcome = NotSent(<<unableToIdentifySourceErrMsg>>)

\* both legacy spec paths and no spec file on a backend without the
\* capability: the two identified types differ and the run fails
C12_Witness ==
    /\ ran = "create" /\ RunReachedIdentification /\ ~RunMultiSupported
    /\ RunIdentified = Built(<<Builds, ReleaseBundles>>)
    /\ outcome = NotSent(<<unableToIdentifySourceErrMsg>>)

\* a multi-source flag of the command is not empty
FlagsSet == rbc.sourcesBuilds # << >> \/ rbc.sourcesReleaseBundles # << >>

\* the sources the flag values describe: builds first, release bundles second
FlagSources ==
    (IF rbc.sourcesBuilds # << >>
     THEN buildRbBuildsSources(rbc.sourcesBuilds, rbc.rbProjectKey, << >>) ELSE << >>)
    \o (IF rbc.sourcesReleaseBundles # << >>
        THEN buildRbReleaseBundlesSources(rbc.sourcesReleaseBundles, rbc.rbProjectKey, << >>)
        ELSE << >>)

\* the command without its multi-source flags
WithoutFlags == [rbc EXCEPT !.sourcesBuilds = << >>, !.sourcesReleaseBundles = << >>]

\* C13 as stated: whenever a multi-source flag is not empty and a spec file
\* whose sources were detected is present, the sources of the call that is
\* made are those of the flag values.
C13_AsStated ==
    (/\ ran = "create" /\ FlagsSet
     /\ rbc.spec.state = "files" /\ RunIdentified.err = NoErr
     /\ outcome.requests # << >>)
    => \A i \in DOMAIN outcome.requests :
           outcome.requests[i].sources \in
               {FlagSources, updateReleaseBundleRepoKeyWithProject(FlagSources)}

\* C13 (amended): when a multi-source flag is not empty and Run of create
\* makes a call, then, if the identified sources are not of a single distinct
\* type, the call is the from-multiple-sources call and its sources are those of
\* the flag values, the detected sources of a spec file not being used; if the
\* identified sources are of a single distinct type, Run takes the
\* single-source path of that type and the flag values are not used.
C13_FlagsWinOnMultiplePath ==
    (/\ ran = "create" /\ FlagsSet /\ outcome.requests # << >>)
    => /\ ~RunSingleType =>
              outcome.requests =
                  <<[method |-> MultipleSourcesMethod,
                     sources |-> updateReleaseBundleRepoKeyWithProject(FlagSources)]>>
       /\ RunSingleType =>
              /\ MethodsSent = {SingleSourceMethod[RunIdentified.val[1]]}
              /\ outcome = ReleaseBundleCreateCommand_Run(WithoutFlags, env)

\* a flag and a spec file of two source types: the call carries the sources
\* of the flag
C13_Witness ==
    /\ ran = "create" /\ FlagsSet
    /\ rbc.spec.state = "files" /\ RunIdentified.err = NoErr /\ ~RunSingleType
    /\ outcome.requests =
           <<[method |-> MultipleSourcesMethod,
              sources |-> updateReleaseBundleRepoKeyWithProject(FlagSources)]>>

\* the release-bundle sources of the calls the run made
ReleaseBundlesSent ==
    UNION { UNION { Entries(outcome.requests[i].sources[j].ReleaseBundles) :
                    j \in DOMAIN outcome.requests[i].sources } :
            i \in DOMAIN outcome.requests }

\* C16: every release-bundle source with a non-empty project key in a call made
\* by create, through the from-release-bundles path or through the
\* from-multiple-sources path, has the repository key
\* '<project>-release-bundles-v2'.
C16_AsStated ==
    ran = "create" =>
        \A rb \in ReleaseBundlesSent :
            rb.ProjectKey # "" => rb.RepositoryKey = rb.ProjectKey \o "-release-bundles-v2"

(* ============= properties of the create and update commands ============ *)

\* the baseline version check of the run returned an error
BaselineFailed ==
    validateArtifactoryVersionSupported(env.fault = "baselineFetch", env.version) # NoErr

\* what the detection and validation of the spec file in multi-source mode
\* returns
SpecDetected == multiSourcesDefinedFromSpec(rbc)

\* the detection or validation of the sources the run uses returned an error
DetectionFailed ==
    IF ran = "create"
    THEN \/ RunIdentified.err # NoErr
         \/ ~RunSingleType /\ ~FlagsSet /\ SpecDetected.err # NoErr
    ELSE ~FlagsSet /\ SpecDetected.err # NoErr

\* the source types whose builder the run calls
TypesBuilt ==
    IF ran = "create" /\ RunIdentified.err = NoErr /\ RunSingleType
    THEN {RunIdentified.val[1]}
    ELSE IF ~FlagsSet /\ SpecDetected.err = NoErr THEN Entries(SpecDetected.val)
    ELSE {}

\* the error the builder of a source type returns in the run
BuilderErr(t) ==
    CASE t = Builds ->
            IF ran = "create" THEN createBuildSourceFromSpec(rbc, env).err
            ELSE convertSpecToBuildsSource(env, rbc.spec.Files).err
      [] t = ReleaseBundles ->
            IF ran = "create" THEN createReleaseBundleSourceFromSpec(rbc, env).err
            ELSE convertSpecToReleaseBundlesSource(rbc.spec.Files).err
      [] t = Artifacts -> createArtifactSourceFromSpec(rbc, env).err
      [] OTHER -> IF ran = "update" THEN <<unexpectedSourceTypeErrMsg, t>> ELSE NoErr

BuilderFailed == \E t \in TypesBuilt : BuilderErr(t) # NoErr

\* C14: a run of create or of update makes at most one call to the lifecycle
\* service, and makes none when the baseline version check, the detection or
\* validation of the sources, or a source builder returned an error.
C14_AtMostOneCall ==
    ran # "" =>
        /\ Len(outcome.requests) <= 1
        /\ (BaselineFailed \/ DetectionFailed \/ BuilderFailed) =>
               outcome.requests = << >> /\ outcome.err # NoErr

\* the artifacts search of a run fails after the sources were detected: the
\* run returns the error and makes no call
C14_Witness ==
    /\ ran # "" /\ ~BaselineFailed /\ env.fault = "searchErr"
    /\ ~DetectionFailed /\ Artifacts \in TypesBuilt
    /\ outcome = NotSent(<<searchErrMsg>>)

(* ================= properties of the command-line layer ================ *)

\* a multi-source flag is supplied to the invocation
MultiSourceFlagSupplied ==
    ctx.sourceTypeBuilds # << >> \/ ctx.sourceTypeReleaseBundles # << >>

\* the invocation has its two arguments and, for update, the --add flag, and
\* every collaborator answers
WellFormedInvocation ==
    /\ ctx.args = 2 /\ env.fault = "none"
    /\ ran = "update" => ctx.add

\* the run failed with the error of a version requirement
VersionRequirementError ==
    outcome.err # NoErr /\ Head(outcome.err) = minimumVersionErrMsg

\* C15: whenever a multi-source flag is supplied to create or to update and
\* the backend version is below 7.114.0, the command fails with a
\* version-requirement error and makes no call to the lifecycle service.
C15_AsStated ==
    (/\ ran \in {"create", "update"} /\ WellFormedInvocation
     /\ MultiSourceFlagSupplied
     /\ ~AtLeast(env.version, <<7, 114, 0>>))
    => VersionRequirementError /\ outcome.requests = << >>

\* the three conditions of an update invocation: two arguments, the --add
\* flag, and a spec or a source-type flag
UpdateContextComplete ==
    /\ ctx.args = 2
    /\ ctx.add
    /\ ctx.spec.set \/ MultiSourceFlagSupplied

\* the only argument of the invocation is "help"
HelpAsked == ctx.args = 1 /\ ctx.help

\* C19 as stated: validateUpdateReleaseBundleContext returns an error unless
\* there are exactly two arguments, the add flag is true and one of --spec and
\* the two source-type flags is set, and no error when the three hold.
C19_AsStated ==
    ran = "validateUpdateReleaseBundleContext" =>
        (outcome.err = NoErr <=> UpdateContextComplete)

\* C19: validateUpdateReleaseBundleContext returns no error exactly when the
\* only argument asks for the help, or there are exactly two arguments, the add
\* flag is true and one of --spec and the two source-type flags is set.
C19_UpdateContextValidated ==
    ran = "validateUpdateReleaseBundleContext" =>
        (outcome.err = NoErr <=> HelpAsked \/ UpdateContextComplete)

\* two arguments and --add with no spec and no source-type flag: the error of
\* the missing source method
C19_Witness ==
    /\ ran = "validateUpdateReleaseBundleContext"
    /\ ctx.args = 2 /\ ctx.add
    /\ ~ctx.spec.set /\ ~MultiSourceFlagSupplied
    /\ outcome.err = <<noSourceMethodErrMsg>>

\* the run of update got past the baseline version check and the service
\* manager
UpdateResolvesSources == ran = "update" /\ ~BaselineFailed /\ env.fault # "manager"

\* what update sends, or fails with, for a list of added sources
UpdateWith(sources) ==
    IF sources = << >> THEN NotSent(<<noAddSourcesErrMsg>>)
    ELSE Sent(env, "UpdateReleaseBundleFromMultipleSources", sources)

\* C20: in update, when a source flag is not empty the added sources are those
\* of the flags and the spec file is not used; otherwise a missing spec file is
\* an error, and a spec file is detected and validated in multi-source mode,
\* the error of that being the error of the run; a request is sent only with a
\* non-empty list of sources, and when no step failed and the list is empty the
\* run fails with the error of the empty list and sends nothing.
C20_UpdateSources ==
    UpdateResolvesSources =>
        /\ FlagsSet => outcome = UpdateWith(FlagSources)
        /\ ~FlagsSet /\ rbc.spec.state # "files" =>
               outcome = NotSent(<<noSpecOrFlagsErrMsg>>)
        /\ ~FlagsSet /\ rbc.spec.state = "files" /\ SpecDetected.err # NoErr =>
               outcome = NotSent(SpecDetected.err)
        /\ \A i \in DOMAIN outcome.requests : Len(outcome.requests[i].sources) > 0
        /\ ~DetectionFailed /\ ~BuilderFailed /\ outcome.requests = << >>
           /\ (FlagsSet \/ rbc.spec.state = "files") =>
               outcome.err = <<noAddSourcesErrMsg>>

\* no flag and a spec file whose artifacts search finds nothing: the error of
\* the empty list and no request
C20_Witness ==
    /\ UpdateResolvesSources
    /\ ~FlagsSet /\ rbc.spec.state = "files" /\ SpecDetected.err = NoErr
    /\ env.fault = "searchEmpty"
    /\ outcome = NotSent(<<noAddSourcesErrMsg>>)

(* ================== properties of the source builders ================== *)

\* the FileGroups of the spec file that have a bundle identifier, in order
BundleFiles == SelectSeq(rbc.spec.Files, LAMBDA f : Len(f.Bundle) > 0)

\* the name and the version an identifier with a "/" is made of
SlashOf(identifier) == CHOOSE i \in DOMAIN identifier : identifier[i] = "/"
NameOf(identifier) == Concat(SubSeq(identifier, 1, SlashOf(identifier) - 1))
VersionOf(identifier) ==
    Concat(SubSeq(identifier, SlashOf(identifier) + 1, Len(identifier)))

\* an identifier with no "/", no name or no version
Malformed(identifier) ==
    \/ "/" \notin Entries(identifier)
    \/ NameOf(identifier) = ""
    \/ VersionOf(identifier) = ""

\* the source of a FileGroup with a well-formed bundle identifier
ExpectedBundle(f) ==
    [ ReleaseBundleName |-> NameOf(f.Bundle), ReleaseBundleVersion |-> VersionOf(f.Bundle),
      ProjectKey |-> f.Project, RepositoryKey |-> "" ]

\* the number of bundle FileGroups before the first malformed one
WellFormedPrefix ==
    CHOOSE n \in 0..Len(BundleFiles) :
        /\ \A i \in 1..n : ~Malformed(BundleFiles[i].Bundle)
        /\ n < Len(BundleFiles) => Malformed(BundleFiles[n + 1].Bundle)

\* C17: convertSpecToReleaseBundlesSource returns, for exactly the FileGroups
\* with a non-empty bundle field and in their order, one source with the parsed
\* name, the parsed version and the project of the FileGroup unchanged; it
\* returns an error as soon as an identifier has no version (no "/", or nothing
\* after it) or no name, the sources returned then being those before it.
C17_BundlesConverted ==
    ran = "convertSpecToReleaseBundlesSource" =>
        /\ built.err = NoErr <=> WellFormedPrefix = Len(BundleFiles)
        /\ built.val = [i \in 1..WellFormedPrefix |-> ExpectedBundle(BundleFiles[i])]

\* a pattern, a bundle of a project and a bundle with no version: one source
\* and an error
C17_Witness ==
    /\ ran = "convertSpecToReleaseBundlesSource"
    /\ Len(rbc.spec.Files) = 3 /\ Len(BundleFiles) = 2
    /\ WellFormedPrefix = 1
    /\ built.err # NoErr
    /\ Len(built.val) = 1 /\ built.val[1].ProjectKey = "proj-a"

\* C18: every build source that createBuildSourceFromSpec returns without an
\* error has a non-empty build name and a non-empty build number: a build
\* whose name or number is empty after resolution makes the builder return an
\* error.
C18_AsStated ==
    ran = "createBuildSourceFromSpec" /\ built.err = NoErr =>
        \A i \in DOMAIN built.val :
            built.val[i].BuildName # "" /\ built.val[i].BuildNumber # ""

(* ================== properties of the creation spec =================== *)

\* a legacy or a multi-source flag is set
LegacyOrMultiSourceFlag ==
    \/ ctx.builds # "" \/ ctx.releaseBundles # ""
    \/ ctx.sourceTypeBuilds # << >> \/ ctx.sourceTypeReleaseBundles # << >>

\* the value of a build flag if the flag is given, of the variable otherwise
FlagOrVariable(flag, value, variable) ==
    IF value # "" \/ flag \in ctx.emptyFlags THEN value ELSE env.osEnv[variable]

ResolvedBuildName == FlagOrVariable("build-name", ctx.buildName, "JFROG_CLI_BUILD_NAME")
ResolvedBuildNumber ==
    FlagOrVariable("build-number", ctx.buildNumber, "JFROG_CLI_BUILD_NUMBER")

\* C21: with no legacy and no multi-source flag, getReleaseBundleCreationSpec
\* returns the spec file when the spec flag is set, whatever the build flags
\* and the build environment variables are; when it is not set, the build name
\* and the build number are each the flag if it is set and the environment
\* variable otherwise, and it returns a spec with the build "name/number" when
\* both are non-empty, the fixed error with a nil spec when either is missing.
C21_CreationSpec ==
    ran = "getReleaseBundleCreationSpec" /\ ~LegacyOrMultiSourceFlag =>
        IF ctx.spec.set
        THEN built = IF env.fault = "specRead"
                     THEN [val |-> NilSpec, err |-> <<specReadErrMsg>>]
                     ELSE [val |-> ctx.spec.content, err |-> NoErr]
        ELSE IF ResolvedBuildName # "" /\ ResolvedBuildNumber # ""
        THEN /\ built.err = NoErr
             /\ Len(built.val.Files) = 1
             /\ built.val.Files[1].Build = <<ResolvedBuildName, "/", ResolvedBuildNumber>>
        ELSE built = [val |-> NilSpec, err |-> <<noCreationSpecErrMsg>>]

\* the build name of the environment and the build number of the flag
C21_Witness ==
    /\ ran = "getReleaseBundleCreationSpec"
    /\ ~LegacyOrMultiSourceFlag /\ ~ctx.spec.set
    /\ ctx.buildName = "" /\ ctx.emptyFlags = {} /\ ctx.buildNumber = "5"
    /\ env.osEnv.JFROG_CLI_BUILD_NAME = "Common-builds"
    /\ built.err = NoErr
    /\ built.val.Files[1].Build = <<"Common-builds", "/", "5">>

(* ================= properties of the artifacts builder ================ *)

\* createArtifactSourceFromSpec of create or of update has returned
ArtifactsBuilderReturned ==
    ran \in {"create.createArtifactSourceFromSpec", "update.createArtifactSourceFromSpec"}

\* C22: in the artifacts builder of create and of update, whenever the cleanup
\* callback of the search returns an error, the error the builder returns is
\* not nil and contains the cleanup error, joined with the conversion error if
\* there is one.
C22_AsStated ==
    /\ ArtifactsBuilderReturned
    /\ "callbackFunc" \in Entries(calls)
    /\ callbackFails(env)
    => /\ cleanupErrMsg \in Entries(built.err)
       /\ (readFails(env) /\ getArtifactFilesFromSpec(rbc.spec.Files) # << >>)
              => readErrMsg \in Entries(built.err)

\* C28: in the artifacts builder of create and of update, the cleanup callback
\* of the search is invoked on every path once the search has been attempted,
\* whether the search and the conversion of its results succeed or fail.
C28_AsStated ==
    ArtifactsBuilderReturned /\ "SearchFilesBySpecs" \in Entries(calls)
        => "callbackFunc" \in Entries(calls)

(* ================== properties of the build publish =================== *)

\* the answers of SetProps that were followed by another attempt or by the
\* end of the loop after the last attempt
NotLast == 1..(Len(pub.responses) - 1)

\* setPropsOnArtifacts was entered and has returned
SetPropsReturned ==
    pub.paths # << >> /\ pub.pc \in {"afterProps", "returned"}

\* C23 (what setPropsOnArtifacts has done so far): at most 3 SetProps
\* attempts; no attempt after a success or a 404 response; at most one 403
\* response is followed by another attempt; the delay before the attempt that
\* follows attempt i is 2^(i-1) seconds, 1s first; once setPropsOnArtifacts
\* has returned, Run goes on with its remaining steps, and the error Run
\* returns is that of those steps.
C23_SoFar ==
    /\ Len(pub.responses) <= 3
    /\ \A i \in NotLast : pub.responses[i] \notin {"ok", "404"}
    /\ pub.pc = "setPropsOnArtifacts" /\ pub.responses # << >>
           => pub.responses[Len(pub.responses)] \notin {"ok", "404"}
    /\ Cardinality({i \in NotLast : pub.responses[i] = "403"}) <= 1
    /\ pub.pc = "setPropsOnArtifacts" /\ Len(pub.responses) >= 2
           => pub.responses[Len(pub.responses)] # "403"
    /\ Len(pub.delays) >= Len(pub.responses) - 1
    /\ Len(pub.delays) <= Len(pub.responses)
    /\ \A i \in DOMAIN pub.delays : pub.delays[i] = 2 ^ (i - 1)
    /\ pub.pc = "returned" /\ pub.paths # << >> => pub.remaining
    /\ pub.pc = "afterProps" => pub.err = NoErr
    /\ pub.pc = "returned" /\ pub.paths # << >>
           => pub.err \in {NoErr, <<remainingErrMsg>>}

\* C23: setPropsOnArtifacts always terminates after at most 3 SetProps
\* attempts: it stops at the first success, does not retry after a 404
\* response, retries a 403 response at most once, waits a doubling delay
\* starting at 1s between attempts, and never returns an error, so
\* BuildPublishCommand.Run goes on with its remaining steps whatever
\* SetProps returns.
C23_SetPropsTerminates ==
    /\ []C23_SoFar
    /\ (pub.pc = "setPropsOnArtifacts") ~> (pub.pc = "afterProps")
    /\ (pub.pc = "setPropsOnArtifacts") ~> (pub.pc = "returned" /\ pub.remaining)

\* a 403 response retried, a 500 response retried and a last 403 response:
\* three attempts, delays of 1s and 2s, and the remaining steps of Run
C23_Witness ==
    /\ pub.pc = "returned" /\ pub.remaining
    /\ pub.responses = <<"403", "500", "403">>
    /\ pub.delays = <<1, 2>>

\* the artifacts of all the modules of the build info, in order
RECURSIVE ArtifactsOf(_)
ArtifactsOf(modules) ==
    IF modules = << >> THEN << >>
    ELSE Head(modules).Artifacts \o ArtifactsOf(Tail(modules))

HasRepo(artifact) == artifact.OriginalDeploymentRepo # ""

\* C24: extractArtifactPathsWithWarnings returns the path
\* OriginalDeploymentRepo/Path for each artifact that has an
\* OriginalDeploymentRepo, and skips every artifact that has none, adding no
\* path for it and counting it in the skipped count; the number of paths plus
\* the skipped count is the number of artifacts of the build info.
C24_AsStated ==
    pub.pc = "extracted" =>
        /\ pub.paths =
               MapSeq(SelectSeq(ArtifactsOf(buildInfo.Modules), HasRepo),
                      LAMBDA a : <<a.OriginalDeploymentRepo, "/", a.Path>>)
        /\ pub.skippedCount =
               Len(SelectSeq(ArtifactsOf(buildInfo.Modules), LAMBDA a : ~HasRepo(a)))
        /\ Len(pub.paths) + pub.skippedCount = Len(ArtifactsOf(buildInfo.Modules))

(* ================= properties of the repository keys ================== *)

\* a bundle after the rewrite: the repository key of its project if it has one
Rewritten(rb) ==
    IF rb.ProjectKey # ""
    THEN [rb EXCEPT !.RepositoryKey = rb.ProjectKey \o "-release-bundles-v2"]
    ELSE rb

\* C25: updateReleaseBundleRepoKeyWithProject leaves every source unchanged
\* when the list is empty or its first element is not of type release_bundles,
\* even if later elements hold bundles of a project; otherwise it sets the
\* repository key to ProjectKey + "-release-bundles-v2" for exactly the bundles
\* with a non-empty project key, in all the elements of the list, and changes
\* nothing else.
C25_RepoKeyFrame ==
    ran = "updateReleaseBundleRepoKeyWithProject" =>
        /\ built.err = NoErr
        /\ Len(built.val) = Len(sourceList)
        /\ (sourceList = << >> \/ sourceList[1].SourceType # ReleaseBundles) => built.val = sourceList
        /\ (sourceList # << >> /\ sourceList[1].SourceType = ReleaseBundles) =>
               \A i \in DOMAIN sourceList :
                   /\ [built.val[i] EXCEPT !.ReleaseBundles = << >>]
                          = [sourceList[i] EXCEPT !.ReleaseBundles = << >>]
                   /\ Len(built.val[i].ReleaseBundles) = Len(sourceList[i].ReleaseBundles)
                   /\ \A j \in DOMAIN sourceList[i].ReleaseBundles :
                          built.val[i].ReleaseBundles[j]
                              = Rewritten(sourceList[i].ReleaseBundles[j])

\* builds first, then bundles of a project: nothing is written
C25_Witness ==
    /\ ran = "updateReleaseBundleRepoKeyWithProject"
    /\ Len(sourceList) = 2
    /\ sourceList[1].SourceType = Builds /\ sourceList[1].ReleaseBundles = << >>
    /\ sourceList[2].SourceType = ReleaseBundles
    /\ sourceList[2].ReleaseBundles[1].ProjectKey = "proj"
    /\ built.val[2].ReleaseBundles[1].RepositoryKey = ""

\* the bundles the operation has returned
BundlesReturned ==
    IF ran = "convertProjectKeyToRepositoryKey" THEN Entries(built.val)
    ELSE UNION {Entries(built.val[i].ReleaseBundles) : i \in DOMAIN built.val}

\* C29: for every non-empty project key p, "default" included, the repository
\* key that convertProjectKeyToRepositoryKey and
\* updateReleaseBundleRepoKeyWithProject write for a bundle is buildRepoKey(p),
\* which is "release-bundles-v2" for "" and "default" and
\* p + "-release-bundles-v2" otherwise.
C29_AsStated ==
    /\ buildRepoKey("") = "release-bundles-v2"
    /\ buildRepoKey("default") = "release-bundles-v2"
    /\ buildRepoKey("proj") = "proj-release-bundles-v2"
    /\ \/ ran = "convertProjectKeyToRepositoryKey"
       \/ /\ ran = "updateReleaseBundleRepoKeyWithProject"
          /\ sourceList # << >> /\ sourceList[1].SourceType = ReleaseBundles
       => \A rb \in BundlesReturned :
              rb.ProjectKey # "" => rb.RepositoryKey = buildRepoKey(rb.ProjectKey)

(* ========== properties of the sources of a spec of several types ====== *)

\* the source type of a FileGroup of a spec of several types
TypeOfFile(f) ==
    IF f.Aql # "" THEN Aql
    ELSE IF Len(f.Build) > 0 THEN Builds
    ELSE IF Len(f.Bundle) > 0 THEN ReleaseBundles
    ELSE IF f.Package # "" THEN Packages
    ELSE Artifacts

\* the types of the FileGroups of the spec file, in order
DetectedTypes == [i \in DOMAIN rbc.spec.Files |-> TypeOfFile(rbc.spec.Files[i])]

\* the FileGroups of a type, in order
FilesOfType(t) == SelectSeq(rbc.spec.Files, LAMBDA f : TypeOfFile(f) = t)

\* the first position of a type in the detected list
FirstOccurrence(t) ==
    CHOOSE i \in DOMAIN DetectedTypes :
        DetectedTypes[i] = t /\ \A j \in 1..(i - 1) : DetectedTypes[j] # t

\* what identifies in a source the contribution of each of its FileGroups
ContributionKeys(source) ==
    CASE source.SourceType = ReleaseBundles ->
            [j \in DOMAIN source.ReleaseBundles |-> source.ReleaseBundles[j].ReleaseBundleName]
      [] source.SourceType = Builds ->
            [j \in DOMAIN source.Builds |-> source.Builds[j].BuildName]
      [] source.SourceType = Artifacts ->
            [j \in DOMAIN source.Artifacts |-> source.Artifacts[j].Path]
      [] source.SourceType = Packages ->
            [j \in DOMAIN source.Packages |-> source.Packages[j].PackageName]
      [] OTHER -> <<source.Aql>>

\* what identifies the contribution of a FileGroup
KeyOfFile(f) ==
    CASE TypeOfFile(f) = ReleaseBundles -> Head(f.Bundle)
      [] TypeOfFile(f) = Builds -> Head(f.Build)
      [] TypeOfFile(f) = Artifacts -> f.Pattern
      [] TypeOfFile(f) = Packages -> f.Package
      [] OTHER -> "items.find(" \o f.Aql \o ")"

\* the sources were built from the spec file without an error
SourcesBuiltFromSpec ==
    ran \in {"getMultipleSourcesIfDefined", "buildSourcesFromSpec"} /\ built.err = NoErr

\* at most one source of each type, in the order of the first occurrences
OnePerTypeInOrder ==
    /\ \A i \in DOMAIN built.val :
           \E k \in DOMAIN DetectedTypes : DetectedTypes[k] = built.val[i].SourceType
    /\ \A i, j \in DOMAIN built.val :
           i < j => FirstOccurrence(built.val[i].SourceType)
                        < FirstOccurrence(built.val[j].SourceType)

\* the payload of source i is made of its FileGroups, in their order
PayloadOfFileGroups(i) ==
    ContributionKeys(built.val[i])
        = MapSeq(FilesOfType(built.val[i].SourceType), KeyOfFile)

\* a legacy spec path of the command replaces the FileGroups of the type
LegacyPathOf(t) ==
    /\ ran = "getMultipleSourcesIfDefined"
    /\ \/ t = Builds /\ rbc.buildsSpecPath # ""
       \/ t = ReleaseBundles /\ rbc.releaseBundlesSpecPath # ""

\* C26 as stated: when the sources of several types are built from a spec, by
\* create or by update, the list has at most one source of each type, in the
\* order of the first occurrence of each type in the detected list, and the
\* payload of each source holds the contributions of every FileGroup of its
\* type in the order of the FileGroups.
C26_AsStated ==
    SourcesBuiltFromSpec =>
        /\ OnePerTypeInOrder
        /\ \A i \in DOMAIN built.val : PayloadOfFileGroups(i)

\* C26: the same, the payload of a builds or release-bundles source of create
\* being that of the legacy spec file when the command has the legacy path of
\* the type.
C26_SourcesOfSpec ==
    SourcesBuiltFromSpec =>
        /\ OnePerTypeInOrder
        /\ \A i \in DOMAIN built.val :
               ~LegacyPathOf(built.val[i].SourceType) => PayloadOfFileGroups(i)
        /\ \A i \in DOMAIN built.val :
               /\ LegacyPathOf(built.val[i].SourceType)
               /\ built.val[i].SourceType = Builds
               => ContributionKeys(built.val[i])
                      = [j \in DOMAIN env.buildsSpec |-> env.buildsSpec[j].Name]
        /\ \A i \in DOMAIN built.val :
               /\ LegacyPathOf(built.val[i].SourceType)
               /\ built.val[i].SourceType = ReleaseBundles
               => ContributionKeys(built.val[i])
                      = [j \in DOMAIN env.releaseBundlesSpec |->
                            env.releaseBundlesSpec[j].Name]

\* a build, a pattern and a second build: the builds first, with both builds,
\* then the artifacts
C26_Witness ==
    /\ ran = "getMultipleSourcesIfDefined" /\ built.err = NoErr
    /\ rbc.buildsSpecPath = ""
    /\ DetectedTypes = <<Builds, Artifacts, Builds>>
    /\ Len(built.val) = 2
    /\ built.val[1].SourceType = Builds /\ Len(built.val[1].Builds) = 2
    /\ built.val[2].SourceType = Artifacts

(* ========== properties of update on aql and packages FileGroups ======= *)

\* the types detected in the spec file of the command, in multi-source mode
DetectedOfSpec == detectSourceTypesFromSpec(rbc.spec.Files, TRUE)

\* update resolves its sources from a spec file whose detected types include
\* aql or packages
UpdateFromAqlOrPackages ==
    /\ UpdateResolvesSources /\ ~FlagsSet /\ rbc.spec.state = "files"
    /\ DetectedOfSpec.err = NoErr
    /\ Entries(DetectedOfSpec.val) \cap {Aql, Packages} # {}

\* the first detected type that is aql or packages
FirstUnexpected ==
    CHOOSE i \in DOMAIN DetectedOfSpec.val :
        /\ DetectedOfSpec.val[i] \in {Aql, Packages}
        /\ \A j \in 1..(i - 1) : DetectedOfSpec.val[j] \notin {Aql, Packages}

\* the builder of a type detected before it returns an error
EarlierBuilderFailed ==
    \E j \in 1..(FirstUnexpected - 1) : BuilderErr(DetectedOfSpec.val[j]) # NoErr

\* C30 as stated: in update, a spec whose detected source types include aql or
\* packages passes validateCreationSources in multi-source mode and is then
\* rejected by convertSpecToSources with the unexpected-source-type error, and
\* no call is made to the lifecycle service.
C30_AsStated ==
    UpdateFromAqlOrPackages =>
        /\ validateCreationSources(DetectedOfSpec.val, TRUE) = NoErr
        /\ outcome.requests = << >>
        /\ outcome.err \in {<<unexpectedSourceTypeErrMsg, Aql>>,
                            <<unexpectedSourceTypeErrMsg, Packages>>}

\* C30: in update, a spec whose detected source types include aql or packages
\* never leads to a call to the lifecycle service: it is rejected by
\* validateCreationSources exactly when it has more than one aql FileGroup,
\* and otherwise by convertSpecToSources, with the unexpected-source-type
\* error of the first aql or packages type unless the builder of a type
\* detected before it has failed.
C30_UpdateRejectsAqlAndPackages ==
    UpdateFromAqlOrPackages =>
        /\ outcome.requests = << >>
        /\ outcome.err # NoErr
        /\ validateCreationSources(DetectedOfSpec.val, TRUE) # NoErr
               <=> Occurrences(DetectedOfSpec.val, Aql) > 1
        /\ Occurrences(DetectedOfSpec.val, Aql) > 1 => outcome.err = <<singleAqlErrMsg>>
        /\ (Occurrences(DetectedOfSpec.val, Aql) <= 1 /\ ~EarlierBuilderFailed) =>
               outcome.err = <<unexpectedSourceTypeErrMsg,
                               DetectedOfSpec.val[FirstUnexpected]>>

\* a build and an aql FileGroup: the error names the aql type
C30_Witness ==
    /\ UpdateFromAqlOrPackages
    /\ DetectedOfSpec.val = <<Builds, Aql>>
    /\ outcome = NotSent(<<unexpectedSourceTypeErrMsg, Aql>>)

(* ================ properties of the source-flag texts ================== *)

\* the pairs of an entry that are written with their '=' and whose trimmed
\* key is the given one
PairsOfKey(pairs, key) ==
    SelectSeq(pairs, LAMBDA pair : pair.eq /\ Concat(TrimSpace(pair.key)) = key)

\* the value an entry gives to a key: the trimmed value of the last such
\* pair, the empty string when there is none
ValueOfKey(pairs, key) ==
    IF PairsOfKey(pairs, key) = << >> THEN ""
    ELSE Concat(TrimSpace(PairsOfKey(pairs, key)[Len(PairsOfKey(pairs, key))].value))

\* the build source and the release-bundle source an entry stands for
BuildOfEntry(pairs) ==
    BuildSource(ValueOfKey(pairs, "name"), ValueOfKey(pairs, "id"),
                GetBuildInfoRepositoryByProject(rbc.rbProjectKey),
                ValueOfKey(pairs, "include-deps") = "true")
BundleOfEntry(pairs) ==
    ReleaseBundleSource(ValueOfKey(pairs, "name"), ValueOfKey(pairs, "version"),
                        rbc.rbProjectKey)

\* the sources of the given type in a list of sources
SourcesOfType(list, sourceType) == SelectSeq(list, LAMBDA src : src.SourceType = sourceType)

\* the lists of entries a text is the text of
TextOfEntries == [entries \in FlagEntryLists |-> FlagText(entries)]
EntryListsOfText(text) == {entries \in FlagEntryLists : TextOfEntries[entries] = text}

\* a list of sources is that of the flags made of the given entries: for each
\* flag that is set (its text is not empty), one source of its type holding
\* one member per entry, in entry order
BuildsOfEntries(list, entries) ==
    SourcesOfType(list, Builds) = <<BuildsSource(MapSeq(entries, BuildOfEntry))>>
BundlesOfEntries(list, entries) ==
    SourcesOfType(list, ReleaseBundles) = <<ReleaseBundlesSource(MapSeq(entries, BundleOfEntry))>>
SourcesOfEntries(list) ==
    /\ rbc.sourcesBuilds # << >> =>
           \A entries \in EntryListsOfText(rbc.sourcesBuilds) :
               BuildsOfEntries(list, entries)
    /\ rbc.sourcesReleaseBundles # << >> =>
           \A entries \in EntryListsOfText(rbc.sourcesReleaseBundles) :
               BundlesOfEntries(list, entries)

\* the list of sources the source flags were turned into
FlagSourcesBuilt == ran \in {"buildReleaseBundleSourcesParams", "buildSourcesFromCommandFlags"}

\* update ran on the flags of scenario C
ScenarioC ==
    /\ ran = "update"
    /\ rbc.sourcesBuilds = ScenarioCText /\ rbc.sourcesReleaseBundles = << >>

\* C27: the source flags are semicolon-separated entries of comma-separated
\* key=value pairs: each entry yields exactly one build source (keys name, id,
\* include-deps) or release-bundle source (keys name, version), in entry
\* order, a pair without '=' being skipped; update with a source flag set
\* fails with no error of its own and sends these sources; and update with the builds
\* flag name=b1,id=5 alone sends a single source of type builds holding one
\* build source of name b1 and number 5.
C27_FlagSources ==
    /\ FlagSourcesBuilt => SourcesOfEntries(sourceList)
    /\ (ran = "update" /\ FlagsSet) =>
          /\ outcome.err \in {NoErr, <<backendErrMsg>>}
          /\ Len(outcome.requests) = 1
          /\ SourcesOfEntries(outcome.requests[1].sources)
    /\ ScenarioC =>
          /\ Len(outcome.requests[1].sources) = 1
          /\ outcome.requests[1].sources[1].SourceType = Builds
          /\ Len(outcome.requests[1].sources[1].Builds) = 1
          /\ outcome.requests[1].sources[1].Builds[1].BuildName = "b1"
          /\ outcome.requests[1].sources[1].Builds[1].BuildNumber = "5"

\* update ran on a builds flag of two entries, the first with a pair without
\* '=' and the second empty, and sent one builds source of two members
C27_Witness ==
    /\ ran = "update"
    /\ rbc.sourcesBuilds = <<"name", "=", "b1", ",", "latest", ",", "id", "=", "5", ";">>
    /\ outcome.err = NoErr
    /\ Len(outcome.requests[1].sources[1].Builds) = 2
    /\ outcome.requests[1].sources[1].Builds[1].BuildNumber = "5"
    /\ outcome.requests[1].sources[1].Builds[2].BuildName = ""

====
